---- MODULE Spec2Model ----
(***************************************************************************)
(* GridPilot conditional-order engine: TriggerOrderManager (CRUD and       *)
(* execute_trigger), the JsonStorage trigger/log files it writes, and the  *)
(* PriceMonitorService check round that drives execute_trigger.            *)
(*                                                                         *)
(* Every thread runs one operation at a time.  An operation is cut into    *)
(* steps at its accesses to the trigger file and to the in-flight set, so  *)
(* that the interleavings of the threads are the interleavings of the      *)
(* Python threads at those accesses.  A log append is taken together with  *)
(* the trigger save next to it: the two touch different files and no       *)
(* operation reads the log.                                                *)
(* Prices are fixed-point (cents); datetimes are ticks of the clock now.   *)
(*                                                                         *)
(* The thread "handler" is the event loop of the REST and chat surfaces:   *)
(* it calls the manager's create, update, cancel and delete one at a time, *)
(* with the quantity and price checks of the request models in front.      *)
(* The thread "monitor" is the PriceMonitor thread: it runs check rounds,  *)
(* and execute_trigger as the callback of a matched trigger.               *)
(***************************************************************************)
EXTENDS Integers, Sequences, FiniteSets, TLC

(* ---------------- bounds of the model ---------------- *)
MaxTime == 1
MaxCalls == 2
MaxFaults == 1

(* ---------------- program constants ---------------- *)
NoTime == -1
NoPrice == -1
QuantityMax == 999
Tolerance == 1

Users == {"u1", "u2"}
Owners == {"u1"}
Threads == {"monitor", "handler"}
TriggerIds == {"t1"}

Terminal == {"executed", "failed", "cancelled", "expired"}
TriggerStatus == {"active", "triggered"} \cup Terminal

(* ---------------- inputs the callers draw from ---------------- *)
BasePrice == 60000
QuoteInputs == {NoPrice, BasePrice - 2, BasePrice}
QuantityInputs == {0, 1, QuantityMax + 1}
ConditionInputs == {">="}
OrderKindInputs == {<<"limit", BasePrice + 100>>, <<"market", NoPrice>>}
ExpiryInputs == {NoTime, 0}

VARIABLES
    store,        \* users/{uid}/triggers/{id}.json : id -> trigger record
    logs,         \* users/{uid}/trigger_logs/{id}.jsonl : id -> sequence of OrderLog
    executing,    \* TriggerOrderManager._executing_triggers
    now,          \* datetime.now()
    th,           \* the worker threads: position and locals
    placed,       \* id -> sequence of broker place_* methods called for it
    issued,       \* uuid4 values already handed to a TriggerOrder
    opsLeft,      \* handler calls that may still be made
    faults,       \* store write failures injected so far
    telegram_token, \* TriggerOrderManager.telegram_token ("" is None)
    notified,     \* id -> payloads handed to TelegramNotifier.send_message
    broker_instances, \* TriggerOrderManager._broker_instances
    adapters,     \* the adapters get_broker has built, in order
    last_cleanup, \* TriggerOrderManager._last_cleanup
    clock,        \* datetime.now() of the pool, in minutes
    bth,          \* the threads inside _get_broker / cleanup_all_brokers
    price_cache,  \* PriceMonitorService._price_cache: symbol -> (price, time)
    fetched,      \* symbol -> the calls get_stock_quote has had, in order
    qth,          \* the threads inside _fetch_prices
    running,      \* PriceMonitorService._running
    workers,      \* the PriceMonitor threads started so far: where each is
    sth,          \* the callers of start(): where each is
    stats,        \* PriceMonitorService._stats
    config,       \* users/{uid}/config.json: user -> its api_key
    api_key_cache, \* JsonStorage._api_key_cache: api key -> user
    cache_loaded, \* JsonStorage._cache_loaded
    kth,          \* the threads inside save_user_api_key
    lth,          \* the threads inside _log_action
    executing_lock, \* TriggerOrderManager._executing_lock: its holder
    broker_lock,  \* TriggerOrderManager._broker_lock: its holder
    xth           \* the threads that take the two locks, step by step

vars == <<store, logs, executing, now, th, placed, issued, opsLeft, faults,
          telegram_token, notified,
          broker_instances, adapters, last_cleanup, clock, bth,
          price_cache, fetched, qth, running, workers, sth, stats,
          config, api_key_cache, cache_loaded, kth, lth,
          executing_lock, broker_lock, xth>>

\* the notifier: its configuration and what it was handed
notif == <<telegram_token, notified>>

\* the broker pool
pool == <<broker_instances, adapters, last_cleanup, clock, bth>>

\* the quote cache and its source
quote == <<price_cache, fetched, qth>>

\* the cadence: the running flag, the loop threads, the callers of start(),
\* the statistics of the loop
cadence == <<running, workers, sth, stats>>

\* the API keys: on disk, in the cache, and the threads rotating them
apikeys == <<config, api_key_cache, cache_loaded, kth>>

\* the threads that write log entries with their time of creation
logwriters == <<lth>>

\* the two locks of the manager and the threads that take them
locks == <<executing_lock, broker_lock, xth>>

\* what only the broker, the uuid generator, the notifier, the pool, the
\* quote cache, the cadence and the key rotation change
env == <<placed, issued, notif, pool, quote, cadence, apikeys, logwriters, locks>>

(* ---------------- records ---------------- *)

\* TriggerOrder with the defaults of the dataclass; the caller fills the rest.
TriggerOrder(user_id, condition, trigger_price, order_type, order_action, quantity, order_price, expires_at, at) ==
    [ user_id |-> user_id, condition |-> condition,
      trigger_price |-> trigger_price, order_type |-> order_type,
      order_action |-> order_action, order_price |-> order_price,
      quantity |-> quantity, status |-> "active",
      updated_at |-> at, triggered_at |-> NoTime, executed_at |-> NoTime,
      expires_at |-> expires_at, executed_order_no |-> "",
      execution_message |-> "", note |-> "" ]

\* a local that holds no trigger (Python None)
NullTrigger ==
    [ TriggerOrder("", ">=", 0, "limit", "buy", 0, NoPrice, NoTime, NoTime)
        EXCEPT !.status = "none" ]

\* no file, no snapshot entry
EmptyMap == [i \in {} |-> NullTrigger]

\* OrderLog.create_log
OrderLog(action, success) ==
    [ action |-> action, success |-> success ]

IdleThread ==
    [ pc |-> "idle", op |-> "none", caller |-> "", tid |-> "",
      loc |-> NullTrigger, snap |-> EmptyMap, todo |-> {}, act |-> {},
      price |-> NoPrice, result |-> "none", ret |-> "none", xret |-> "none" ]

(* ---------------- pure helpers ---------------- *)

\* TriggerOrder.is_expired
is_expired(trigger, t) ==
    IF trigger.expires_at = NoTime THEN FALSE ELSE t > trigger.expires_at

\* a monitor that dispatches whatever the quote is
ConditionIgnored(trigger, current_price) == TRUE

\* TriggerOrder.is_condition_met, tolerance 0.01 = 1 cent
is_condition_met(trigger, current_price) ==
    CASE trigger.condition = ">=" -> current_price >= trigger.trigger_price - Tolerance
      [] trigger.condition = "<=" -> current_price <= trigger.trigger_price + Tolerance
      [] trigger.condition = "==" ->
            /\ current_price - trigger.trigger_price <= Tolerance
            /\ trigger.trigger_price - current_price <= Tolerance
      [] OTHER -> FALSE

\* the names of the actions logged for a trigger, in file order
Actions(id) == [i \in 1..Len(logs[id]) |-> logs[id][i].action]

Count(seq, a) == Cardinality({i \in 1..Len(seq) : seq[i] = a})

Exists(id) == id \in DOMAIN store

\* JsonStorage.get_trigger_order: the record on disk, or None
get_trigger_order(id) == IF Exists(id) THEN store[id] ELSE NullTrigger

\* the dict written by JsonStorage.save_trigger_order replaces the whole file
Saved(trigger, id) ==
    IF Exists(id) THEN [store EXCEPT ![id] = trigger]
    ELSE [i \in DOMAIN store \cup {id} |-> IF i = id THEN trigger ELSE store[i]]

\* JsonStorage.save_order_log appends one line
Logged(id, action, success) ==
    [logs EXCEPT ![id] = Append(@, OrderLog(action, success))]

(* ---------------- initial state ---------------- *)

\* the threads that call start() and stop() on the monitor, or rotate a key
Callers == {"c1", "c2"}

\* pc: where the thread is; log: the OrderLog it has built; n: how many it
\* has built
IdleLogThread == [ pc |-> "idle", log |-> << >>, n |-> 0 ]

LogInit == lth = [t \in Threads |-> IdleLogThread]

\* threading.Lock(): nobody holds it
Free == "free"

\* the threads of the executor of _handle_trigger_matched and of shutdown
LockThreads == {"x1", "x2", "x3"}

\* a thread outside every call, with the calls it has made
IdleLockThread == [pc |-> "idle", op |-> "none", calls |-> 0]

LockInit ==
    /\ executing_lock = Free
    /\ broker_lock = Free
    /\ xth = [t \in LockThreads |-> IdleLockThread]

\* no key (Python None)
NoKey == << >>

\* the key the user starts with
FirstKey == <<"first", 0>>

\* pc: where the thread is; key: the key it drew; old: the key it read from
\* the config; n: how many keys it has drawn
IdleKeyThread == [ pc |-> "idle", key |-> NoKey, old |-> NoKey, n |-> 0 ]

\* the user has a key on disk; the cache of a new JsonStorage is not loaded
ApiKeyInit ==
    /\ config = [u \in Owners |-> FirstKey]
    /\ api_key_cache = [k \in {} |-> ""]
    /\ cache_loaded = FALSE
    /\ kth = [c \in Callers |-> IdleKeyThread]

\* PriceMonitorService.__init__: not running, no thread
CadenceInit ==
    /\ running = FALSE
    /\ workers = << >>
    /\ sth = [c \in Callers |-> "idle"]
    /\ stats = [checks |-> 0, errors |-> 0, last_check |-> NoTime]

\* the stock symbols triggers name
Symbols == {"2330", "2317"}

IdleQuoteThread == [ pc |-> "idle", at |-> 0, need |-> {} ]

\* PriceMonitorService.__init__: an empty cache; nothing was asked yet
QuoteInit ==
    /\ price_cache = [s \in {} |-> [price |-> NoPrice, time |-> 0]]
    /\ fetched = [s \in Symbols |-> << >>]
    /\ qth = [t \in Threads |-> IdleQuoteThread]

\* the threads that may be inside the pool: two dispatch workers and the
\* main thread, which runs the shutdown handler
PoolThreads == {"w1", "w2"}
MainThread == "main"

\* no adapter (Python None)
NoBroker == 0

IdleBrokerThread ==
    [ pc |-> "idle", key |-> "", broker |-> NoBroker, out |-> {},
      ret |-> NoBroker, at |-> 0 ]

\* TriggerOrderManager.__init__: an empty pool, _last_cleanup = now
PoolInit ==
    /\ broker_instances = [k \in {} |-> [broker |-> NoBroker, last_access |-> 0]]
    /\ adapters = << >>
    /\ last_cleanup = 0
    /\ clock = 0
    /\ bth = [t \in PoolThreads \cup {MainThread} |-> IdleBrokerThread]

Init ==
    /\ store = EmptyMap
    /\ logs = [i \in TriggerIds |-> << >>]
    /\ executing = {}
    /\ now = 0
    /\ th = [t \in Threads |-> IdleThread]
    /\ placed = [i \in TriggerIds |-> << >>]
    /\ issued = {}
    /\ opsLeft = MaxCalls
    /\ faults = 0
    /\ telegram_token = "token"
    /\ notified = [i \in TriggerIds |-> << >>]
    /\ PoolInit
    /\ QuoteInit
    /\ CadenceInit
    /\ ApiKeyInit
    /\ LogInit
    /\ LockInit

\* the handler thread may take a call
CanStart(t) == th[t].pc = "idle" /\ opsLeft > 0

\* the call of thread t ends with return value r (or "raised")
Return(t, r) ==
    [th EXCEPT ![t] = [IdleThread EXCEPT !.op = th[t].op, !.ret = r]]

\* store writes may fail (lock Timeout, I/O error): sf the trigger save,
\* lf the log append
MayFail(sf, lf) ==
    /\ sf => ~lf
    /\ faults + (IF sf THEN 1 ELSE 0) + (IF lf THEN 1 ELSE 0) <= MaxFaults
Failed(sf, lf) ==
    faults' = faults + (IF sf THEN 1 ELSE 0) + (IF lf THEN 1 ELSE 0)

\* JsonStorage.save_order_log: a failure is logged and swallowed
save_order_log(id, action, success, lf) ==
    IF lf THEN logs ELSE Logged(id, action, success)

Tick ==
    /\ now < MaxTime
    /\ now' = now + 1
    /\ UNCHANGED <<store, logs, executing, th, env, opsLeft, faults>>

\* save_trigger_order then _log_action, as create, update, cancel and the
\* expiry sweep do: the save raises (nothing is logged) or the entry follows
SaveAndLog(trigger, id, action, success, sf, lf) ==
    /\ MayFail(sf, lf)
    /\ Failed(sf, lf)
    /\ IF sf
       THEN UNCHANGED <<store, logs>>
       ELSE /\ store' = Saved(trigger, id)
            /\ logs' = save_order_log(id, action, success, lf)

(* ---------------- create ---------------- *)

\* the request check with the upper bound of quantity left out
CreateRequestNoUpperBound(req) ==
    /\ req.trigger_price > 0
    /\ req.quantity > 0
    /\ req.order_price = NoPrice \/ req.order_price > 0
    /\ ~(req.order_type = "limit" /\ req.order_price = NoPrice)

\* CreateTriggerOrderRequest (quantity gt 0 le 999, prices gt 0) and the
\* route's check that a limit order names its price
CreateRequestValid(req) ==
    /\ req.trigger_price > 0
    /\ req.quantity > 0 /\ req.quantity <= QuantityMax
    /\ req.order_price = NoPrice \/ req.order_price > 0
    /\ ~(req.order_type = "limit" /\ req.order_price = NoPrice)

\* create_trigger_order behind its surface: the request is validated, then
\* the manager builds the TriggerOrder (uuid4 id), saves it and logs "created";
\* kinds are the (order_type, order_price) pairs the caller may send
CreateOf(t, kinds) ==
    /\ CanStart(t)
    /\ \E u \in Owners, q \in QuantityInputs, k \in kinds,
          c \in ConditionInputs, e \in ExpiryInputs :
         LET req == TriggerOrder(u, c, BasePrice, k[1], "buy", q, k[2], e, now)
             me  == [IdleThread EXCEPT !.op = "create"]
         IN  IF ~CreateRequestValid(req)
             THEN /\ th' = [th EXCEPT ![t] = [me EXCEPT !.ret = "rejected",
                                                        !.loc.quantity = q]]
                  /\ UNCHANGED <<store, logs, issued, faults>>
             ELSE \E id \in TriggerIds \ issued, sf \in BOOLEAN, lf \in BOOLEAN :
                    /\ SaveAndLog(req, id, "created", TRUE, sf, lf)
                    /\ issued' = issued \cup {id}
                    /\ th' = [th EXCEPT ![t] =
                                [me EXCEPT !.ret = IF sf THEN "raised"
                                                   ELSE "trigger"]]
    /\ opsLeft' = opsLeft - 1
    /\ UNCHANGED <<executing, now, placed, notif, pool, quote, cadence, apikeys, logwriters, locks>>

Create(t) == CreateOf(t, OrderKindInputs)

(* ---------------- update ---------------- *)

NoQuantity == -1
NoNote == "<None>"

\* an updates dict: a field that is absent or None keeps the marker
Patch(tp, op, q, e, n) ==
    [ trigger_price |-> tp, order_price |-> op, quantity |-> q,
      expires_at |-> e, note |-> n ]

UpdateInputs ==
    { Patch(BasePrice + 2, NoPrice, 2, NoTime, "n"),
      Patch(NoPrice, BasePrice + 50, NoQuantity, NoTime, NoNote),
      Patch(NoPrice, NoPrice, 0, NoTime, NoNote),
      Patch(NoPrice, NoPrice, QuantityMax + 1, NoTime, NoNote),
      Patch(NoPrice, NoPrice, NoQuantity, 0, NoNote) }

\* UpdateTriggerOrderRequest: trigger_price gt 0, order_price gt 0,
\* quantity gt 0 le 999, each only when given
UpdateRequestValid(patch) ==
    /\ patch.trigger_price = NoPrice \/ patch.trigger_price > 0
    /\ patch.order_price = NoPrice \/ patch.order_price > 0
    /\ patch.quantity = NoQuantity
         \/ (patch.quantity > 0 /\ patch.quantity <= QuantityMax)

\* the setattr loop over allowed_fields
ApplyUpdates(trigger, patch) ==
    [ trigger EXCEPT
        !.trigger_price = IF patch.trigger_price # NoPrice
                          THEN patch.trigger_price ELSE @,
        !.order_price = IF patch.order_price # NoPrice
                        THEN patch.order_price ELSE @,
        !.quantity = IF patch.quantity # NoQuantity THEN patch.quantity ELSE @,
        !.expires_at = IF patch.expires_at # NoTime THEN patch.expires_at ELSE @,
        !.note = IF patch.note # NoNote THEN patch.note ELSE @ ]

\* update_trigger_order: found, permitted (user_id = "" is "not given"), ACTIVE
UpdateAllowed(trigger, user_id) ==
    /\ trigger # NullTrigger
    /\ ~(user_id # "" /\ trigger.user_id # user_id)
    /\ trigger.status = "active"

\* update_trigger_order: get_trigger_order, the checks, the setattr loop
UpdateReadOf(t, users, patches) ==
    /\ CanStart(t)
    /\ \E id \in TriggerIds, u \in users, patch \in patches :
         LET trigger == get_trigger_order(id)
             me == [IdleThread EXCEPT !.op = "update", !.caller = u, !.tid = id]
         IN  /\ UpdateRequestValid(patch)
             /\ IF ~UpdateAllowed(trigger, u)
                THEN th' = [th EXCEPT ![t] = [me EXCEPT !.ret = "None"]]
                ELSE th' = [th EXCEPT ![t] =
                              [me EXCEPT !.pc = "u_save",
                                         !.loc = ApplyUpdates(trigger, patch)]]
    /\ opsLeft' = opsLeft - 1
    /\ UNCHANGED <<store, logs, executing, now, env, faults>>

UpdateRead(t) == UpdateReadOf(t, Users \cup {""}, UpdateInputs)

\* update_trigger_order from position pc: updated_at = at, save, log,
\* return trigger
UpdateSaveOf(t, pc, at) ==
    /\ th[t].pc = pc
    /\ \E sf \in BOOLEAN, lf \in BOOLEAN :
         /\ SaveAndLog([th[t].loc EXCEPT !.updated_at = at], th[t].tid,
                       "updated", TRUE, sf, lf)
         /\ th' = Return(t, IF sf THEN "raised" ELSE "trigger")
    /\ UNCHANGED <<executing, now, env, opsLeft>>

\* the time is read as the save begins
UpdateSave(t) == UpdateSaveOf(t, "u_save", now)

(* ---------------- cancel ---------------- *)

\* cancel_trigger_order: found, owned by the caller, ACTIVE
CancelAllowed(trigger, user_id) ==
    /\ trigger # NullTrigger
    /\ trigger.user_id = user_id
    /\ trigger.status = "active"

CancelRead(t) ==
    /\ CanStart(t)
    /\ \E id \in TriggerIds, u \in Users :
         LET trigger == get_trigger_order(id)
             me == [IdleThread EXCEPT !.op = "cancel", !.caller = u, !.tid = id]
         IN  IF ~CancelAllowed(trigger, u)
             THEN th' = [th EXCEPT ![t] = [me EXCEPT !.ret = "False"]]
             ELSE th' = [th EXCEPT ![t] = [me EXCEPT !.pc = "c_save",
                                                     !.loc = trigger]]
    /\ opsLeft' = opsLeft - 1
    /\ UNCHANGED <<store, logs, executing, now, env, faults>>

\* cancel_trigger_order: status = CANCELLED, updated_at = now, save, log
CancelSave(t) ==
    /\ th[t].pc = "c_save"
    /\ \E sf \in BOOLEAN, lf \in BOOLEAN :
         /\ SaveAndLog([th[t].loc EXCEPT !.status = "cancelled",
                                         !.updated_at = now],
                       th[t].tid, "cancelled", TRUE, sf, lf)
         /\ th' = Return(t, IF sf THEN "raised" ELSE "True")
    /\ UNCHANGED <<executing, now, env, opsLeft>>

(* ---------------- delete ---------------- *)

\* delete_trigger_order (manager): the checks made before the removal
DeleteAllowed(trigger, user_id) ==
    /\ trigger # NullTrigger
    /\ trigger.user_id = user_id

DeleteRead(t) ==
    /\ CanStart(t)
    /\ \E id \in TriggerIds, u \in Users :
         LET trigger == get_trigger_order(id)
             me == [IdleThread EXCEPT !.op = "delete", !.caller = u, !.tid = id]
         IN  IF ~DeleteAllowed(trigger, u)
             THEN th' = [th EXCEPT ![t] = [me EXCEPT !.ret = "False"]]
             ELSE th' = [th EXCEPT ![t] = [me EXCEPT !.pc = "d_unlink",
                                                     !.loc = trigger]]
    /\ opsLeft' = opsLeft - 1
    /\ UNCHANGED <<store, logs, executing, now, env, faults>>

\* JsonStorage.delete_trigger_order: unlink the file when it exists
DeleteUnlink(t) ==
    /\ th[t].pc = "d_unlink"
    /\ IF Exists(th[t].tid)
       THEN /\ store' = [i \in DOMAIN store \ {th[t].tid} |-> store[i]]
            /\ th' = Return(t, "True")
       ELSE /\ UNCHANGED store
            /\ th' = Return(t, "False")
    /\ UNCHANGED <<logs, executing, now, env, opsLeft, faults>>

(* ---------------- the check round ---------------- *)

\* get_all_active_triggers: storage.get_triggers_by_status(ACTIVE)
ActiveOnDisk == {i \in DOMAIN store : store[i].status = "active"}

\* _check_all_triggers starts: the list of ACTIVE triggers is read
RoundListOf(t, rest) ==
    /\ th[t].pc = "idle"
    /\ th' = [th EXCEPT ![t] =
                [IdleThread EXCEPT !.op = "round", !.pc = "sweep",
                                   !.snap = [i \in ActiveOnDisk |-> store[i]],
                                   !.todo = ActiveOnDisk]]
    /\ UNCHANGED <<store, logs, executing, now, opsLeft, faults>>
    /\ UNCHANGED <<placed, issued, notif, pool, quote, apikeys, logwriters, locks>>
    /\ UNCHANGED rest

\* a round begun by a thread whose loop is not looked at
RoundList(t) == RoundListOf(t, cadence)

\* get_all_active_triggers: one turn of the loop over the list
Sweep(t) ==
    /\ th[t].pc = "sweep"
    /\ \E i \in th[t].todo, sf \in BOOLEAN, lf \in BOOLEAN :
         IF is_expired(th[t].snap[i], now)
         THEN /\ SaveAndLog([th[t].snap[i] EXCEPT !.status = "expired",
                                                  !.updated_at = now],
                            i, "expired", TRUE, sf, lf)
              /\ th' = IF sf THEN [th EXCEPT ![t] = IdleThread]
                       ELSE [th EXCEPT ![t].todo = @ \ {i}]
         ELSE /\ ~sf /\ ~lf
              /\ th' = [th EXCEPT ![t].act = @ \cup {i}, ![t].todo = @ \ {i}]
              /\ UNCHANGED <<store, logs, faults>>
    /\ UNCHANGED <<executing, now, env, opsLeft>>

\* _check_all_triggers: the list is back; _fetch_prices (one symbol) gets
\* one of quotes from the quote source
FetchOf(t, quotes) ==
    /\ th[t].pc = "sweep"
    /\ th[t].todo = {}
    /\ \E p \in quotes :
         IF th[t].act = {} \/ p = NoPrice
         THEN th' = [th EXCEPT ![t] = IdleThread]
         ELSE th' = [th EXCEPT ![t].pc = "match", ![t].price = p,
                               ![t].todo = th[t].act]
    /\ UNCHANGED <<store, logs, executing, now, env, opsLeft, faults>>

Fetch(t) == FetchOf(t, QuoteInputs)

\* the guard without the test of the in-flight set
AdmittedByStatusOnly(id) ==
    ~(get_trigger_order(id) # NullTrigger
      /\ get_trigger_order(id).status # "active")

\* the guard without the re-read of the status
AdmittedIfNotInFlight(id) == id \notin executing

\* execute_trigger: may this call go on?  (under _executing_lock)
Admitted(id) ==
    /\ id \notin executing
    /\ ~(get_trigger_order(id) # NullTrigger
         /\ get_trigger_order(id).status # "active")

\* the callbacks init_price_monitor registers
Callbacks == {"execute_trigger"}

\* _check_all_triggers: one turn of the loop over the active triggers; a
\* match goes to _handle_trigger_matched, which returns at once when no
\* callback is registered and else calls execute_trigger, which starts with
\* its guard
MatchOf(t, callbacks) ==
    /\ th[t].pc = "match"
    /\ IF th[t].todo = {}
       THEN /\ th' = [th EXCEPT ![t] = IdleThread]
            /\ UNCHANGED executing
       ELSE \E i \in th[t].todo :
              IF \/ ~is_condition_met(th[t].snap[i], th[t].price)
                 \/ callbacks = {}
              THEN /\ th' = [th EXCEPT ![t].todo = @ \ {i}]
                   /\ UNCHANGED executing
              ELSE IF ~Admitted(i)
              THEN /\ th' = [th EXCEPT ![t].todo = @ \ {i},
                                       ![t].xret = "False"]
                   /\ UNCHANGED executing
              ELSE /\ executing' = executing \cup {i}
                   /\ th' = [th EXCEPT ![t].todo = @ \ {i}, ![t].tid = i,
                                       ![t].pc = "e_save", ![t].xret = "none",
                                       ![t].loc = th[t].snap[i]]
    /\ UNCHANGED <<store, logs, now, env, opsLeft, faults>>

Match(t) == MatchOf(t, Callbacks)

(* ---------------- execute_trigger ---------------- *)

\* a return that skips the finally block
LeaveKeepingId(t, r) ==
    /\ UNCHANGED executing
    /\ th' = [th EXCEPT ![t].pc = "match", ![t].xret = r, ![t].tid = "",
                        ![t].loc = NullTrigger, ![t].result = "none"]

\* the finally block, and control back in the loop of _check_all_triggers
Leave(t, r) ==
    /\ executing' = executing \ {th[t].tid}
    /\ th' = [th EXCEPT ![t].pc = "match", ![t].xret = r, ![t].tid = "",
                        ![t].loc = NullTrigger, ![t].result = "none"]

\* an exception enters the except block with its message
Raise(t, trigger, message) ==
    /\ th' = [th EXCEPT ![t].pc = "x_save", ![t].loc = trigger,
                        ![t].result = message]
    /\ UNCHANGED executing

\* status = TRIGGERED, triggered_at = now, save; _log_action "triggered"
ExecTriggered(t) ==
    /\ th[t].pc = "e_save"
    /\ \E sf \in BOOLEAN, lf \in BOOLEAN :
         LET trigger == [th[t].loc EXCEPT !.status = "triggered",
                                          !.triggered_at = now]
         IN  /\ SaveAndLog(trigger, th[t].tid, "triggered", TRUE, sf, lf)
             /\ IF sf
                THEN Raise(t, trigger, "store")
                ELSE /\ th' = [th EXCEPT ![t].pc = "e_broker",
                                         ![t].loc = trigger]
                     /\ UNCHANGED executing
    /\ UNCHANGED <<now, env, opsLeft>>

LimitMethods == {"place_buy_order", "place_sell_order"}
MarketMethods == {"place_market_buy_order", "place_market_sell_order"}

\* an adapter class whose base does not define the market variants
HasOnlyLimitMethods(method) == method \in LimitMethods

\* hasattr(broker, method): BaseBroker defines all four place_* methods
HasMethod(method) == method \in LimitMethods \cup MarketMethods

\* the place_* method chosen for the order
PlaceMethod(trigger) ==
    IF trigger.order_action = "buy"
    THEN IF trigger.order_type = "market" /\ HasMethod("place_market_buy_order")
         THEN "place_market_buy_order" ELSE "place_buy_order"
    ELSE IF trigger.order_type = "market" /\ HasMethod("place_market_sell_order")
         THEN "place_market_sell_order" ELSE "place_sell_order"

BrokerOutcomes == {"nobroker", "raise", "ok", "reject"}

\* _get_broker and the place_* call: the adapter overrides the methods in
\* implemented (any other is BaseBroker's, which raises NotImplementedError)
\* and answers out of outcomes
Broker(t, outcomes, implemented) ==
    /\ th[t].pc = "e_broker"
    /\ \E outcome \in outcomes :
         IF outcome = "nobroker"
         THEN /\ Raise(t, th[t].loc, "nobroker")
              /\ UNCHANGED placed
         ELSE /\ placed' = [placed EXCEPT ![th[t].tid] =
                              Append(@, PlaceMethod(th[t].loc))]
              /\ IF PlaceMethod(th[t].loc) \notin implemented
                 THEN Raise(t, th[t].loc, "unsupported")
                 ELSE IF outcome = "raise"
                 THEN Raise(t, th[t].loc, "raise")
                 ELSE /\ th' = [th EXCEPT ![t].pc = "e_final",
                                          ![t].result = outcome]
                      /\ UNCHANGED executing
    /\ UNCHANGED <<store, logs, now, issued, notif, pool, quote, cadence, apikeys, logwriters, locks,
                   opsLeft, faults>>

\* EsunBroker overrides all four
ExecBroker(t) == Broker(t, BrokerOutcomes, LimitMethods \cup MarketMethods)

\* a manager that never notifies
NotifyNothing(id, success) == notified

\* _send_notification: nothing without a token; else one message, "ok" for
\* success and "error" otherwise, goes to the notifier of the trigger's user
send_notification(id, success) ==
    IF telegram_token = ""
    THEN notified
    ELSE [notified EXCEPT ![id] =
            Append(@, IF success THEN "ok" ELSE "error")]

\* the trigger as execute_trigger sets it after the broker answered
Outcome(trigger, result, t) ==
    IF result = "ok"
    THEN [trigger EXCEPT !.status = "executed", !.executed_at = t,
                         !.executed_order_no = "A0001",
                         !.execution_message = "ok"]
    ELSE [trigger EXCEPT !.status = "failed",
                         !.execution_message = "risk limit"]

\* status and trailer are set; _log_action "executed" or "failed"; then
\* storage.save_trigger_order(trigger) and return result.success
ExecFinal(t) ==
    /\ th[t].pc = "e_final"
    /\ \E sf \in BOOLEAN, lf \in BOOLEAN :
         LET trigger == Outcome(th[t].loc, th[t].result, now)
             ok == th[t].result = "ok"
         IN  /\ faults + (IF sf THEN 1 ELSE 0) + (IF lf THEN 1 ELSE 0)
                  <= MaxFaults
             /\ Failed(sf, lf)
             /\ logs' = save_order_log(th[t].tid,
                                       IF ok THEN "executed" ELSE "failed",
                                       ok, lf)
             /\ notified' = send_notification(th[t].tid, ok)
             /\ IF sf
                THEN /\ Raise(t, trigger, "store")
                     /\ UNCHANGED store
                ELSE /\ store' = Saved(trigger, th[t].tid)
                     /\ Leave(t, IF ok THEN "True" ELSE "False")
    /\ UNCHANGED <<now, placed, issued, telegram_token, pool, quote, cadence,
                   apikeys, logwriters, locks, opsLeft>>

\* except: status = FAILED, execution_message = str(e), save;
\* _log_action "failed"; return False
Except(t) ==
    /\ th[t].pc = "x_save"
    /\ \E sf \in BOOLEAN, lf \in BOOLEAN :
         /\ SaveAndLog([th[t].loc EXCEPT !.status = "failed",
                                         !.execution_message = th[t].result],
                       th[t].tid, "failed", FALSE, sf, lf)
         /\ notified' = IF sf THEN notified
                        ELSE send_notification(th[t].tid, FALSE)
         /\ Leave(t, IF sf THEN "raised" ELSE "False")
    /\ UNCHANGED <<now, placed, issued, telegram_token, pool, quote, cadence,
                   apikeys, logwriters, locks, opsLeft>>

(* ---------------- specification ---------------- *)

\* the REST/chat surface: one event loop runs the handlers one at a time
HandlerNext ==
    \/ Create("handler")
    \/ UpdateRead("handler") \/ UpdateSave("handler")
    \/ CancelRead("handler") \/ CancelSave("handler")
    \/ DeleteRead("handler") \/ DeleteUnlink("handler")

\* a thread in _check_all_triggers and the execute_trigger calls it makes
RoundNext(t) ==
    \/ RoundList(t) \/ Sweep(t) \/ Fetch(t) \/ Match(t)
    \/ ExecTriggered(t) \/ ExecBroker(t) \/ ExecFinal(t) \/ Except(t)

Next ==
    \/ Tick
    \/ HandlerNext
    \/ RoundNext("monitor")

Spec == Init /\ [][Next]_vars

(* ---------------- scenario S2: two concurrent rounds ---------------- *)

\* the S1 seed: one ACTIVE buy trigger of quantity 1 with its "created" entry
SeedTrigger(k) ==
    TriggerOrder("u1", ">=", BasePrice, k[1], "buy", 1, k[2], NoTime, 0)

\* the store holds the seed, no handler call is left, no store write fails
InitS2 ==
    /\ \E k \in OrderKindInputs : store = [i \in TriggerIds |-> SeedTrigger(k)]
    /\ logs = [i \in TriggerIds |-> <<OrderLog("created", TRUE)>>]
    /\ executing = {}
    /\ now = 0
    /\ th = [t \in Threads |-> IdleThread]
    /\ placed = [i \in TriggerIds |-> << >>]
    /\ issued = TriggerIds
    /\ opsLeft = 0
    /\ faults = MaxFaults
    /\ telegram_token = "token"
    /\ notified = [i \in TriggerIds |-> << >>]
    /\ PoolInit
    /\ QuoteInit
    /\ CadenceInit
    /\ ApiKeyInit
    /\ LogInit
    /\ LockInit

\* the stub broker of the scenario accepts every order
ExecBrokerOk(t) == Broker(t, {"ok"}, LimitMethods \cup MarketMethods)

\* _check_all_triggers run by the monitor loop and, at the same time, by a
\* caller of force_check
RoundS2(t) ==
    \/ RoundList(t) \/ Sweep(t) \/ Fetch(t) \/ Match(t)
    \/ ExecTriggered(t) \/ ExecBrokerOk(t) \/ ExecFinal(t)

NextS2 ==
    \/ Tick
    \/ \E t \in Threads : RoundS2(t)

SpecS2 == InitS2 /\ [][NextS2]_vars

(* ---------------- properties ---------------- *)

\* this step is thread t entering the handler call op
Calls(t, op) == opsLeft' = opsLeft - 1 /\ th'[t].op = op

\* the entry an operation appends to the log of id in this step
Appends(id, action, success) ==
    logs'[id] = Append(logs[id], OrderLog(action, success))

\* C1: for every trigger, the "executed" entries plus the "failed" entries of
\* its log are at most one, whatever was called and whichever store write
\* failed during an execution.
C1_OneOutcomeEntry ==
    \A id \in TriggerIds :
        Count(Actions(id), "executed") + Count(Actions(id), "failed") <= 1

\* C2: of two concurrent execute_trigger calls on the same ACTIVE trigger,
\* one reaches the broker; the other returns False and places nothing; the
\* trigger ends EXECUTED with the log [created, triggered, executed].
C2_OneCallReachesBroker ==
    \A id \in TriggerIds :
        /\ Len(placed[id]) <= 1
        /\ \A t \in Threads :
             (th[t].pc = "match" /\ th[t].xret = "False"
                /\ id \in DOMAIN th[t].snap)
             => \/ Len(placed[id]) = 1
                \/ \E u \in Threads \ {t} :
                     th[u].tid = id /\ th[u].pc \in {"e_save", "e_broker"}
        /\ (Len(placed[id]) = 1 /\ id \notin executing)
             => /\ store[id].status = "executed"
                /\ Actions(id) = <<"created", "triggered", "executed">>

\* C2 witness: one call was turned away while the other, in flight, has
\* placed its order and is about to save EXECUTED.
C2_Witness ==
    \E t \in Threads, u \in Threads, id \in TriggerIds :
        /\ t # u
        /\ th[t].pc = "match" /\ th[t].xret = "False" /\ id \in DOMAIN th[t].snap
        /\ th[u].pc = "e_final" /\ th[u].tid = id
        /\ Len(placed[id]) = 1

\* C3: execute_trigger persists TRIGGERED at most once per trigger, and never
\* for a trigger whose log already holds an "executed" or "failed" entry.
C3_NoSecondExecution ==
    [][\A id \in TriggerIds :
         (/\ id \in DOMAIN store'
          /\ store'[id].status = "triggered"
          /\ get_trigger_order(id).status # "triggered")
         => /\ Count(Actions(id), "triggered") = 0
            /\ Count(Actions(id), "executed") = 0
            /\ Count(Actions(id), "failed") = 0]_vars

\* C4: once the persisted status of a trigger is EXECUTED, FAILED, CANCELLED
\* or EXPIRED, no later save changes it.
C4_TerminalImmutable ==
    [][\A id \in DOMAIN store :
         (store[id].status \in Terminal /\ id \in DOMAIN store')
         => store'[id].status = store[id].status]_vars

\* C5: every operation that returns success has, in the step it returns,
\* left the entry of its transition in the log of the trigger; a sweep that
\* went on after marking a trigger EXPIRED has logged "expired".
C5_LoggedBeforeSuccess ==
    [][\A t \in Threads :
         /\ (Calls(t, "create") /\ th'[t].ret = "trigger")
            => \E id \in TriggerIds \ issued : Appends(id, "created", TRUE)
         /\ (th[t].pc = "u_save" /\ th'[t].ret = "trigger")
            => Appends(th[t].tid, "updated", TRUE)
         /\ (th[t].pc = "c_save" /\ th'[t].ret = "True")
            => Appends(th[t].tid, "cancelled", TRUE)
         /\ (th[t].pc = "sweep" /\ th'[t].pc = "sweep"
               /\ th'[t] # th[t] /\ store' # store)
            => \E i \in th[t].todo : Appends(i, "expired", TRUE)
         /\ (th[t].pc = "e_save" /\ th'[t].pc = "e_broker")
            => Appends(th[t].tid, "triggered", TRUE)
         /\ (th[t].pc = "e_final" /\ th'[t].xret = "True")
            => Appends(th[t].tid, "executed", TRUE)
         /\ (th[t].pc \in {"e_final", "x_save"} /\ th'[t].xret = "False")
            => Appends(th[t].tid, "failed", FALSE)]_vars

\* C6: cancel of an ACTIVE trigger by its owner goes on to save CANCELLED
\* with updated_at = now, append one "cancelled" entry and return True; any
\* other cancel returns False and leaves the record and the log as they are.
C6_CancelContract ==
    [][\A t \in Threads :
         /\ Calls(t, "cancel")
            => IF CancelAllowed(get_trigger_order(th'[t].tid), th'[t].caller)
               THEN th'[t].pc = "c_save"
               ELSE th'[t].ret = "False" /\ UNCHANGED <<store, logs>>
         /\ (th[t].pc = "c_save" /\ th'[t].ret = "True")
            => /\ store'[th[t].tid].status = "cancelled"
               /\ store'[th[t].tid].updated_at = now
               /\ Appends(th[t].tid, "cancelled", TRUE)]_vars

\* C7: a trigger file is removed only while its persisted status is
\* EXECUTED, FAILED, CANCELLED or EXPIRED.
C7_DeleteOnlyTerminal ==
    [][\A id \in DOMAIN store :
         id \notin DOMAIN store' => store[id].status \in Terminal]_vars

\* C8: one turn of the sweep of get_all_active_triggers: an expired trigger is
\* saved EXPIRED with one "expired" entry and kept off the returned list, and
\* no broker is involved; any other trigger listed ACTIVE is returned.
C8_ExpirySweep ==
    [][\A t \in Threads : \A i \in TriggerIds :
         (/\ th[t].pc = "sweep" /\ i \in th[t].todo
          /\ th'[t].pc = "sweep" /\ i \notin th'[t].todo)
         => IF is_expired(th[t].snap[i], now)
            THEN /\ i \notin th'[t].act
                 /\ i \in DOMAIN store' /\ store'[i].status = "expired"
                 /\ Appends(i, "expired", TRUE)
                 /\ UNCHANGED placed
            ELSE /\ i \in th'[t].act
                 /\ th[t].snap[i].status = "active"
                 /\ UNCHANGED <<store, logs>>]_vars

\* the fields update_trigger_order may not change
FrozenFields ==
    { "user_id", "condition", "order_type", "order_action", "status",
      "triggered_at", "executed_at", "executed_order_no",
      "execution_message" }

\* C9: update by a tenant who does not own the trigger, or on a trigger that
\* is not ACTIVE, returns None and writes nothing; an update that succeeds
\* leaves every field of the persisted record outside {trigger_price,
\* order_price, quantity, expires_at, note, updated_at} as it was.
C9_UpdateContract ==
    [][\A t \in Threads :
         /\ (/\ Calls(t, "update")
             /\ th'[t].caller \in Users
             /\ \/ th'[t].tid \notin DOMAIN store
                \/ store[th'[t].tid].user_id # th'[t].caller
                \/ store[th'[t].tid].status # "active")
            => th'[t].ret = "None" /\ UNCHANGED <<store, logs>>
         /\ (th[t].pc = "u_save" /\ th'[t].ret = "trigger")
            => /\ th[t].tid \in DOMAIN store
               /\ \A f \in FrozenFields :
                    store'[th[t].tid][f] = store[th[t].tid][f]]_vars

AnyOrderKind ==
    OrderKindInputs \cup {<<"market", BasePrice + 100>>, <<"limit", NoPrice>>}

CreateAnyKind(t) == CreateOf(t, AnyOrderKind)

NextKinds ==
    \/ Tick
    \/ CreateAnyKind("handler")
    \/ UpdateRead("handler") \/ UpdateSave("handler")

SpecKinds == Init /\ [][NextKinds]_vars

\* C11: every trigger on disk has order_price > 0 when its order_type is
\* limit and no order_price when it is market, after create and after update.
C11_OrderKindInvariant ==
    \A id \in DOMAIN store :
        /\ store[id].order_type = "limit" => store[id].order_price > 0
        /\ store[id].order_type = "market" => store[id].order_price = NoPrice

\* C12: every trigger on disk whose status is EXECUTED or FAILED has
\* executed_at set, whichever path of execute_trigger wrote the status.
C12_ExecutedAtSet ==
    \A id \in DOMAIN store :
        store[id].status \in {"executed", "failed"}
        => store[id].executed_at # NoTime

(* ---------------- a MARKET trigger on an adapter without market orders ---------------- *)

\* one ACTIVE market buy trigger is on disk; store writes may fail
InitMarket ==
    /\ store = [i \in TriggerIds |-> SeedTrigger(<<"market", NoPrice>>)]
    /\ logs = [i \in TriggerIds |-> <<OrderLog("created", TRUE)>>]
    /\ executing = {}
    /\ now = 0
    /\ th = [t \in Threads |-> IdleThread]
    /\ placed = [i \in TriggerIds |-> << >>]
    /\ issued = TriggerIds
    /\ opsLeft = 0
    /\ faults = 0
    /\ telegram_token = "token"
    /\ notified = [i \in TriggerIds |-> << >>]
    /\ PoolInit
    /\ QuoteInit
    /\ CadenceInit
    /\ ApiKeyInit
    /\ LogInit
    /\ LockInit

\* the adapter overrides the two abstract methods only and accepts orders
ExecBrokerNoMarket(t) == Broker(t, {"ok"}, LimitMethods)

\* rounds of the monitor loop and of a caller of force_check
RoundMarket(t) ==
    \/ RoundList(t) \/ Sweep(t) \/ Fetch(t) \/ Match(t)
    \/ ExecTriggered(t) \/ ExecBrokerNoMarket(t) \/ Except(t)

NextMarket ==
    \/ Tick
    \/ \E t \in Threads : RoundMarket(t)

SpecMarket == InitMarket /\ [][NextMarket]_vars

InitS1 ==
    /\ store = EmptyMap
    /\ logs = [i \in TriggerIds |-> << >>]
    /\ executing = {}
    /\ now = 0
    /\ th = [t \in Threads |-> IdleThread]
    /\ placed = [i \in TriggerIds |-> << >>]
    /\ issued = {}
    /\ opsLeft = MaxCalls
    /\ faults = MaxFaults
    /\ telegram_token = "token"
    /\ notified = [i \in TriggerIds |-> << >>]
    /\ PoolInit
    /\ QuoteInit
    /\ CadenceInit
    /\ ApiKeyInit
    /\ LogInit
    /\ LockInit

\* the stub quote source: below the threshold at first, at it from time 1
QuoteS1(at) == IF at = 0 THEN BasePrice - 2 ELSE BasePrice

\* the client creates limit orders
CreateLimit(t) == CreateOf(t, {<<"limit", BasePrice + 100>>})

FetchS1(t) == FetchOf(t, {QuoteS1(now)})

\* the monitor loop as init_price_monitor wires it: a match calls
\* trigger_manager.execute_trigger
RoundS1(t) ==
    \/ RoundList(t) \/ Sweep(t) \/ FetchS1(t) \/ Match(t)
    \/ ExecTriggered(t) \/ ExecBrokerOk(t) \/ ExecFinal(t)

NextS1 ==
    \/ Tick
    \/ CreateLimit("handler")
    \/ RoundS1("monitor")

SpecS1 == InitS1 /\ [][NextS1]_vars

\* the loop of this round is past id: it was looked at and, on a match,
\* execute_trigger has returned
RoundPast(t, id) ==
    /\ th[t].pc = "match"
    /\ id \in DOMAIN th[t].snap
    /\ id \notin th[t].todo
    /\ th[t].tid = ""

\* C14: a limit buy trigger without expiry is untouched (ACTIVE, nothing
\* placed, log [created], nothing notified) while the quote is below the
\* threshold; once a round with a quote that meets the threshold is past it,
\* it is EXECUTED with the broker's order number, one limit buy order was
\* placed, its log is exactly [created, triggered, executed] and the notifier
\* got exactly one ok payload; and that is how it stays.
C14_HappyPath ==
    \A id \in DOMAIN store :
        store[id].expires_at = NoTime =>
            /\ (now = 0 =>
                 /\ store[id].status = "active"
                 /\ placed[id] = << >>
                 /\ Actions(id) = <<"created">>
                 /\ notified[id] = << >>)
            /\ ((\E t \in Threads :
                    (RoundPast(t, id) /\ th[t].price = QuoteS1(1)))
                \/ (placed[id] # << >> /\ id \notin executing))
                 => /\ store[id].status = "executed"
                    /\ store[id].executed_order_no = "A0001"
                    /\ placed[id] = <<"place_buy_order">>
                    /\ Actions(id) = <<"created", "triggered", "executed">>
                    /\ notified[id] = <<"ok">>

\* a round with the quote below the threshold has passed the trigger, and a
\* later round with the quote at the threshold is over
C14_Witness ==
    \E id \in DOMAIN store :
        /\ store[id].expires_at = NoTime
        /\ store[id].status = "executed"
        /\ store[id].triggered_at = 1
        /\ th["monitor"].pc = "idle" /\ th["monitor"].op = "none"
        /\ notified[id] = <<"ok">>
        /\ placed[id] = <<"place_buy_order">>


(* ---------------- scenario S3: the broker rejects ---------------- *)

\* the stub broker refuses every order with the message "risk limit"
ExecBrokerReject(t) == Broker(t, {"reject"}, LimitMethods \cup MarketMethods)

RoundS3(t) ==
    \/ RoundList(t) \/ Sweep(t) \/ FetchS1(t) \/ Match(t)
    \/ ExecTriggered(t) \/ ExecBrokerReject(t) \/ ExecFinal(t)

NextS3 ==
    \/ Tick
    \/ CreateLimit("handler")
    \/ RoundS3("monitor")

SpecS3 == InitS1 /\ [][NextS3]_vars

\* C15: once the broker has refused the order of a trigger and the call is
\* over, the trigger is FAILED with the broker's message as its
\* execution_message, its log is [created, triggered, failed] and the
\* notifier got exactly one error payload.
C15_BrokerRejection ==
    \A id \in DOMAIN store :
        (placed[id] # << >> /\ id \notin executing)
            => /\ store[id].status = "failed"
               /\ store[id].execution_message = "risk limit"
               /\ store[id].executed_order_no = ""
               /\ Len(placed[id]) = 1
               /\ Actions(id) = <<"created", "triggered", "failed">>
               /\ notified[id] = <<"error">>

\* the order was refused and the round that dispatched it is over
C15_Witness ==
    \E id \in DOMAIN store :
        /\ placed[id] = <<"place_buy_order">>
        /\ store[id].status = "failed"
        /\ store[id].execution_message = "risk limit"
        /\ notified[id] = <<"error">>
        /\ th["monitor"].pc = "idle"


\* thread t is inside execute_trigger, past the guard
InExecute(t) == th[t].pc \in {"e_save", "e_broker", "e_final", "x_save"}

\* C16: a call of execute_trigger that got past its guard returns normally
\* (True or False, never an exception), and when it returns the trigger on
\* disk is EXECUTED or FAILED, whichever error happened on the way.
C16_ErrorsBecomeTerminal ==
    [][\A t \in Threads :
          (InExecute(t) /\ ~InExecute(t)')
            => /\ th'[t].xret \in {"True", "False"}
               /\ Exists(th[t].tid)' =>
                    store'[th[t].tid].status \in {"executed", "failed"}]_vars


\* C17: an id is in the in-flight set only while a call of execute_trigger
\* for it is in progress: every way out of the call (True, False, an
\* exception) has removed it.
C17_InFlightReleased ==
    \A id \in executing : \E t \in Threads : InExecute(t) /\ th[t].tid = id

\* a call has ended with an exception and the set is empty again
C17_Witness ==
    /\ executing = {}
    /\ \E t \in Threads : th[t].pc = "match" /\ th[t].xret = "raised"


(* ---------------- the broker pool ---------------- *)

\* BROKER_CACHE_MAX_SIZE, scaled down from 50 to the value of scenario S6
BROKER_CACHE_MAX_SIZE == 2
BROKER_CACHE_TTL_MINUTES == 30
\* _cleanup_broker_cache runs at most once in 5 minutes
CleanupInterval == 5

MaxAdapters == 3
MaxClock == 36
\* the clock moves by 18 minutes (a cleanup is due, nothing that was just
\* used has expired) or by 31 (whatever was not used meanwhile has expired)
ClockSteps == {18, 31}

\* broker_key = f"{user_id}_{broker_name}", in the order in which the users
\* first come to the pool
KeyOrder == <<"u1_esun", "u2_esun", "u3_esun">>
BrokerKeys == {KeyOrder[i] : i \in DOMAIN KeyOrder}

\* what the environment of _get_broker answers: no broker config, a login
\* that fails, a login that succeeds
LoginOutcomes == {"noconfig", "loginfail", "ok"}

\* everything but the pool
engine ==
    <<store, logs, executing, now, th, placed, issued, opsLeft, faults, notif,
      quote, cadence, apikeys, logwriters, locks>>

Cached == DOMAIN broker_instances

InPool(a) == \E k \in Cached : broker_instances[k].broker = a

\* thread t has adapter a in its hands: built and not yet inserted, or taken
\* out of the pool and not yet logged out
Held(a) == \E t \in DOMAIN bth : bth[t].broker = a \/ a \in bth[t].out

\* broker.logout() on each adapter of as: the call is counted
LoggedOut(as) ==
    [a \in DOMAIN adapters |->
        IF a \in as
        THEN [adapters[a] EXCEPT !.logged_in = FALSE, !.logouts = @ + 1]
        ELSE adapters[a]]

\* the pool with the keys of ks deleted
Without(ks) == [k \in Cached \ ks |-> broker_instances[k]]

\* self._broker_instances[key] = (broker, datetime.now())
Cache(key, a) ==
    [k \in Cached \cup {key} |->
        IF k = key THEN [broker |-> a, last_access |-> clock]
        ELSE broker_instances[k]]

\* _get_broker returns a (None is NoBroker)
BrokerReturn(t, a) ==
    [bth EXCEPT ![t] = [IdleBrokerThread EXCEPT !.ret = a]]

PoolTick ==
    /\ \E d \in ClockSteps : clock + d <= MaxClock /\ clock' = clock + d
    /\ UNCHANGED <<broker_instances, adapters, last_cleanup, bth, engine>>

\* the keys the pool has been asked for so far
KnownKeys ==
    {bth[t].key : t \in DOMAIN bth} \cup {adapters[a].key : a \in DOMAIN adapters}

\* _cleanup_broker_cache: is a pass due at the time at?  (read of
\* _last_cleanup, outside any lock)
CleanupDue(at) == ~(at - last_cleanup < CleanupInterval)

\* a worker enters _get_broker(user_id, broker_name) for one of the first n
\* keys (none does once the shutdown handler has run) and
\* _cleanup_broker_cache takes now = datetime.now() and returns at once
\* unless a pass is due
GetBrokerOf(t, n) ==
    /\ bth[t].pc = "idle"
    /\ bth[MainThread].pc = "idle"
    /\ \E i \in 1..n :
         /\ \A j \in 1..(i - 1) : KeyOrder[j] \in KnownKeys
         /\ bth' = [bth EXCEPT ![t] =
                      [IdleBrokerThread EXCEPT
                         !.key = KeyOrder[i],
                         !.pc = IF CleanupDue(clock) THEN "cleanup"
                                ELSE "lookup",
                         !.at = IF CleanupDue(clock) THEN clock ELSE 0]]
    /\ UNCHANGED <<broker_instances, adapters, last_cleanup, clock, engine>>

GetBroker(t) == GetBrokerOf(t, Len(KeyOrder))

\* the keys whose entry is older than the TTL at the time at
Expired(at) ==
    {k \in Cached : at - broker_instances[k].last_access
                      > BROKER_CACHE_TTL_MINUTES}

\* the sets of least recently used keys that may go so that max are left
Oldest(ks, max) ==
    {r \in SUBSET ks :
        /\ Cardinality(r) = IF Cardinality(ks) > max
                            THEN Cardinality(ks) - max ELSE 0
        /\ \A k \in r, j \in ks \ r :
             broker_instances[k].last_access <= broker_instances[j].last_access}

\* _cleanup_broker_cache, the pass up to the release of the lock:
\* _last_cleanup = now; the entries expired at now go, then the oldest ones
\* above the maximum
CleanupOf(t, max) ==
    /\ bth[t].pc = "cleanup"
    /\ last_cleanup' = bth[t].at
    /\ LET expired == Expired(bth[t].at)
       IN  \E r \in Oldest(Cached \ expired, max) :
             /\ broker_instances' = Without(expired \cup r)
             /\ bth' = [bth EXCEPT ![t].pc = "cl_logout", ![t].at = 0,
                          ![t].out = {broker_instances[k].broker :
                                        k \in expired \cup r}]
    /\ UNCHANGED <<adapters, clock, engine>>

Cleanup(t) == CleanupOf(t, BROKER_CACHE_MAX_SIZE)

\* _cleanup_broker_cache, outside the lock: the evicted adapters are logged out
CleanupLogout(t) ==
    /\ bth[t].pc = "cl_logout"
    /\ adapters' = LoggedOut(bth[t].out)
    /\ bth' = [bth EXCEPT ![t].pc = "lookup", ![t].out = {}]
    /\ UNCHANGED <<broker_instances, last_cleanup, clock, engine>>

\* _get_broker, first locked block: a cached adapter that is logged in is
\* refreshed and returned, one that is not is dropped from the pool
Lookup(t) ==
    /\ bth[t].pc = "lookup"
    /\ LET k == bth[t].key
       IN  IF k \in Cached
           THEN IF adapters[broker_instances[k].broker].logged_in
                THEN /\ broker_instances' =
                          Cache(k, broker_instances[k].broker)
                     /\ bth' = BrokerReturn(t, broker_instances[k].broker)
                ELSE /\ broker_instances' = Without({k})
                     /\ bth' = [bth EXCEPT ![t].pc = "config"]
           ELSE /\ bth' = [bth EXCEPT ![t].pc = "config"]
                /\ UNCHANGED broker_instances
    /\ UNCHANGED <<adapters, last_cleanup, clock, engine>>

\* the adapter get_broker builds for a key
Adapter(k, logged_in) == [key |-> k, logged_in |-> logged_in, logouts |-> 0]

\* _get_broker outside the lock: get_broker_config, get_broker, login()
Construct(t) ==
    /\ bth[t].pc = "config"
    /\ \E o \in LoginOutcomes :
         IF o = "noconfig"
         THEN /\ bth' = BrokerReturn(t, NoBroker)
              /\ UNCHANGED adapters
         ELSE /\ Len(adapters) < MaxAdapters
              /\ adapters' = Append(adapters, Adapter(bth[t].key, o = "ok"))
              /\ bth' = IF o = "ok"
                        THEN [bth EXCEPT ![t].pc = "insert",
                                         ![t].broker = Len(adapters) + 1]
                        ELSE BrokerReturn(t, NoBroker)
    /\ UNCHANGED <<broker_instances, last_cleanup, clock, engine>>

\* the second locked block without its double-check
InsertBlindly(t) ==
    /\ bth[t].pc = "insert"
    /\ broker_instances' = Cache(bth[t].key, bth[t].broker)
    /\ bth' = BrokerReturn(t, bth[t].broker)
    /\ UNCHANGED <<adapters, last_cleanup, clock, engine>>

\* _get_broker, second locked block: if another thread has cached a live
\* adapter meanwhile, the new one is logged out and the cached one returned;
\* else the new one is cached and returned
Insert(t) ==
    /\ bth[t].pc = "insert"
    /\ LET k == bth[t].key
           new == bth[t].broker
       IN  IF k \in Cached /\ adapters[broker_instances[k].broker].logged_in
           THEN /\ adapters' = LoggedOut({new})
                /\ broker_instances' = Cache(k, broker_instances[k].broker)
                /\ bth' = BrokerReturn(t, broker_instances[k].broker)
           ELSE /\ broker_instances' = Cache(k, new)
                /\ bth' = BrokerReturn(t, new)
                /\ UNCHANGED adapters
    /\ UNCHANGED <<last_cleanup, clock, engine>>

\* cleanup_all_brokers under the lock: the pool is emptied
ShutdownClear ==
    /\ bth[MainThread].pc = "idle"
    /\ bth' = [bth EXCEPT ![MainThread].pc = "sd_logout",
                 ![MainThread].out = {broker_instances[k].broker : k \in Cached}]
    /\ broker_instances' = Without(Cached)
    /\ UNCHANGED <<adapters, last_cleanup, clock, engine>>

\* cleanup_all_brokers outside the lock: every adapter taken is logged out
ShutdownLogout ==
    /\ bth[MainThread].pc = "sd_logout"
    /\ adapters' = LoggedOut(bth[MainThread].out)
    /\ bth' = [bth EXCEPT ![MainThread].pc = "done", ![MainThread].out = {}]
    /\ UNCHANGED <<broker_instances, last_cleanup, clock, engine>>

GetBrokerNext(t) ==
    \/ GetBroker(t) \/ Cleanup(t) \/ CleanupLogout(t)
    \/ Lookup(t) \/ Construct(t) \/ Insert(t)

NextPool ==
    \/ PoolTick
    \/ \E t \in PoolThreads : GetBrokerNext(t)
    \/ ShutdownClear \/ ShutdownLogout

SpecPool == Init /\ [][NextPool]_vars


(* ---------------- two workers, one key ---------------- *)

\* both workers ask for the session of the same user
GetBrokerSame(t) == GetBrokerOf(t, 1)

NextRace ==
    \/ PoolTick
    \/ \E t \in PoolThreads :
         \/ GetBrokerSame(t) \/ Cleanup(t) \/ CleanupLogout(t)
         \/ Lookup(t) \/ Construct(t) \/ Insert(t)

SpecRace == Init /\ [][NextRace]_vars

\* this step is _get_broker of thread t returning an adapter
Returns(t) == bth[t].pc \in {"lookup", "insert"} /\ bth'[t].ret # NoBroker

\* C18: when workers race for the session of one key, a logged-in adapter is
\* always in the pool or in the hands of a thread that has still to cache it
\* or log it out; the adapter _get_broker returns is logged in and is the
\* one the pool holds for the key at that moment; and a worker that brought
\* an adapter of its own and returns another has logged its own out, once.
C18_DoubleCheck ==
    /\ [](\A a \in DOMAIN adapters :
            adapters[a].logged_in => (InPool(a) \/ Held(a)))
    /\ [][\A t \in PoolThreads :
            Returns(t) =>
              /\ bth[t].key \in DOMAIN broker_instances'
              /\ broker_instances'[bth[t].key].broker = bth'[t].ret
              /\ adapters'[bth'[t].ret].logged_in
              /\ (bth[t].pc = "insert" /\ bth[t].broker # bth'[t].ret)
                   => /\ ~adapters'[bth[t].broker].logged_in
                      /\ adapters'[bth[t].broker].logouts = 1]_vars

\* both workers built an adapter for the key at the same time: one is cached
\* and both workers got it, the other was logged out once
C18_Witness ==
    /\ clock = 0
    /\ Len(adapters) = 2
    /\ \E a \in DOMAIN adapters, b \in DOMAIN adapters :
         /\ a # b /\ adapters[a].key = adapters[b].key
         /\ InPool(a) /\ adapters[a].logged_in
         /\ ~adapters[b].logged_in /\ adapters[b].logouts = 1
         /\ \A t \in PoolThreads : bth[t].pc = "idle" /\ bth[t].ret = a


\* C19: at any moment the pool holds at most BROKER_CACHE_MAX_SIZE sessions,
\* whatever keys are acquired and in whatever order.
C19_HardCap == Cardinality(Cached) <= BROKER_CACHE_MAX_SIZE

\* C20: no adapter the pool has built is ever logged out twice, and one that
\* is neither in the pool any more nor in the hands of a thread that is about
\* to cache it or log it out has been logged out exactly once.
C20_OneLogout ==
    \A a \in DOMAIN adapters :
        /\ adapters[a].logouts <= 1
        /\ (~InPool(a) /\ ~Held(a)) => adapters[a].logouts = 1


\* this step is the maintenance pass of thread t
Pass(t) == bth[t].pc = "cleanup" /\ bth'[t].pc = "cl_logout"

\* C21: a maintenance pass of the pool starts at least five minutes after
\* the one before it, also when several workers are in _get_broker at once.
C21_OnePassPerWindow ==
    [][\A t \in PoolThreads :
          (Pass(t) /\ last_cleanup > 0)
            => bth[t].at - last_cleanup >= CleanupInterval]_vars


\* C22: once cleanup_all_brokers has completed and the _get_broker calls that
\* were in progress have returned, the pool is empty and no adapter the pool
\* has built is logged in.
C22_ShutdownLogsOutAll ==
    (bth[MainThread].pc = "done" /\ \A t \in PoolThreads : bth[t].pc = "idle")
        => /\ Cached = {}
           /\ \A a \in DOMAIN adapters : ~adapters[a].logged_in


(* ---------------- the quote cache ---------------- *)

\* PriceMonitorService._cache_ttl, seconds
cache_ttl == 10

MaxFetches == 2
MaxQuoteClock == 14
\* seconds between two looks at the clock: within the TTL, or a whole TTL
QuoteSteps == {4, cache_ttl}

\* the symbols of the active triggers of a round, one per trigger
SymbolLists == {<<"2330">>, <<"2330", "2330">>, <<"2330", "2317">>}

\* everything but the quote cache and the clock
noquote ==
    <<store, logs, executing, th, placed, issued, opsLeft, faults, notif, pool,
      cadence, apikeys, logwriters, locks>>

\* list(set(t.symbol for t in active_triggers))
Distinct(syms) == {syms[i] : i \in DOMAIN syms}

\* _fetch_prices: is the cached entry of symbol good at the time at?
Fresh(symbol, at) ==
    /\ symbol \in DOMAIN price_cache
    /\ at - price_cache[symbol].time < cache_ttl

\* self._price_cache[symbol] = (price, now)
Cached2(symbol, price, at) ==
    [s \in DOMAIN price_cache \cup {symbol} |->
        IF s = symbol THEN [price |-> price, time |-> at] ELSE price_cache[s]]

QuoteTick ==
    /\ \E d \in QuoteSteps : now + d <= MaxQuoteClock /\ now' = now + d
    /\ UNCHANGED <<quote, noquote>>

\* _check_all_triggers collects the symbols and _fetch_prices looks each one
\* up in the cache: what is fresh is taken from it, the rest is to be fetched
FetchPrices(t) ==
    /\ qth[t].pc = "idle"
    /\ \E syms \in SymbolLists :
         LET need == {s \in Distinct(syms) : ~Fresh(s, now)}
         IN  qth' = [qth EXCEPT ![t] =
                       IF need = {} THEN IdleQuoteThread
                       ELSE [pc |-> "fetch", at |-> now, need |-> need]]
    /\ UNCHANGED <<price_cache, fetched, now, noquote>>

\* _fetch_single_price of one symbol and the future's result: the source is
\* asked; a price is put in the cache under the time the pass began
FetchSingle(t) ==
    /\ qth[t].pc = "fetch"
    /\ \E s \in qth[t].need, p \in {NoPrice, BasePrice} :
         /\ Len(fetched[s]) < MaxFetches
         /\ fetched' = [fetched EXCEPT ![s] =
                          Append(@, [asked |-> qth[t].at, price |-> p])]
         /\ price_cache' = IF p = NoPrice THEN price_cache
                           ELSE Cached2(s, p, qth[t].at)
         /\ qth' = [qth EXCEPT ![t] =
                      IF qth[t].need = {s} THEN IdleQuoteThread
                      ELSE [@ EXCEPT !.need = @ \ {s}]]
    /\ UNCHANGED <<now, noquote>>

\* rounds of the monitor loop and of a caller of force_check
NextQuote ==
    \/ QuoteTick
    \/ \E t \in Threads : FetchPrices(t) \/ FetchSingle(t)

SpecQuote == Init /\ [][NextQuote]_vars

\* C23: when the source has answered a pass with a price for a symbol, no
\* other pass that looks the symbol up less than cache_ttl seconds from that
\* pass asks the source again, whether the passes belong to rounds of the
\* monitor loop or of force_check.
C23_OneHitPerTtl ==
    \A s \in Symbols :
        \A i \in DOMAIN fetched[s], j \in DOMAIN fetched[s] :
            (i < j /\ fetched[s][i].price # NoPrice)
                => fetched[s][j].asked - fetched[s][i].asked >= cache_ttl


(* ---------------- start() and stop() ---------------- *)

MaxWorkers == 2

\* everything but the cadence
nocadence ==
    <<store, logs, executing, now, th, placed, issued, opsLeft, faults, notif,
      pool, quote, apikeys, logwriters, locks>>

\* start(): if self._running, return; else go on to start a thread
StartCheck(c) ==
    /\ sth[c] = "idle"
    /\ sth' = [sth EXCEPT ![c] = IF running THEN "returned" ELSE "spawn"]
    /\ UNCHANGED <<running, workers, stats, nocadence>>

\* start(): self._running = True and the PriceMonitor thread is started
StartSpawn(c) ==
    /\ sth[c] = "spawn"
    /\ Len(workers) < MaxWorkers
    /\ running' = TRUE
    /\ workers' = Append(workers, "while")
    /\ sth' = [sth EXCEPT ![c] = "returned"]
    /\ UNCHANGED <<stats, nocadence>>

\* stop(): self._running = False; the join gives up after 5 seconds, so the
\* call may return while the thread is still in its round
Stop(c) ==
    /\ sth[c] \in {"idle", "returned"}
    /\ running
    /\ running' = FALSE
    /\ sth' = [sth EXCEPT ![c] = "idle"]
    /\ UNCHANGED <<workers, stats, nocadence>>

\* the caller is ready for its next call
CallAgain(c) ==
    /\ sth[c] = "returned"
    /\ sth' = [sth EXCEPT ![c] = "idle"]
    /\ UNCHANGED <<running, workers, stats, nocadence>>

\* how many rounds the loops make
MaxPasses == 2

\* _monitor_loop of worker w: while self._running
LoopWhile(w) ==
    /\ workers[w] = "while"
    /\ running => stats.checks + stats.errors < MaxPasses
    /\ workers' = [workers EXCEPT ![w] = IF running THEN "round" ELSE "ended"]
    /\ UNCHANGED <<running, sth, stats, nocadence>>

\* _monitor_loop at position pc: the round is over; if it raised (raised
\* holds the ways it may end), errors += 1, else checks += 1 and
\* last_check = now; the wait begins
LoopRoundOf(w, pc, raised) ==
    /\ workers[w] = pc
    /\ \E err \in raised :
         stats' = IF err
                  THEN [stats EXCEPT !.errors = @ + 1]
                  ELSE [stats EXCEPT !.checks = @ + 1, !.last_check = now]
    /\ workers' = [workers EXCEPT ![w] = "sleep"]
    /\ UNCHANGED <<running, sth, nocadence>>

\* the round (_check_all_triggers, _cleanup_expired_cache) ends or raises
LoopRound(w) == LoopRoundOf(w, "round", BOOLEAN)

\* _monitor_loop, the wait: if not self._running: break; else time.sleep(1)
LoopSleep(w) ==
    /\ workers[w] = "sleep"
    /\ workers' = [workers EXCEPT ![w] = IF running THEN "slice" ELSE "while"]
    /\ UNCHANGED <<running, sth, stats, nocadence>>

\* time.sleep(1) is over: the next second of the wait, or the wait is over
LoopSlice(w) ==
    /\ workers[w] = "slice"
    /\ \E last \in BOOLEAN :
         workers' = [workers EXCEPT ![w] = IF last THEN "while" ELSE "sleep"]
    /\ UNCHANGED <<running, sth, stats, nocadence>>

NextCadence ==
    \/ \E c \in Callers : StartCheck(c) \/ StartSpawn(c) \/ Stop(c) \/ CallAgain(c)
    \/ \E w \in DOMAIN workers :
         LoopWhile(w) \/ LoopRound(w) \/ LoopSleep(w) \/ LoopSlice(w)

SpecCadence == Init /\ [][NextCadence]_vars

\* the _monitor_loop threads that have not ended
Alive == {w \in DOMAIN workers : workers[w] # "ended"}

\* C24: whatever start() and stop() calls are made, one after another or at
\* the same time, at most one _monitor_loop thread is alive.
C24_OneCadence == Cardinality(Alive) <= 1


(* ---------------- the monitor as scripts/run_api.py starts it ---------------- *)

\* main builds PriceMonitorService(trigger_manager=..., check_interval=30)
\* itself and calls start(): add_trigger_callback is never called
RunApiCallbacks == {}

MatchRunApi(t) == MatchOf(t, RunApiCallbacks)

\* the quote source always answers with a price at the threshold
FetchMet(t) == FetchOf(t, {BasePrice})

\* a round of the monitor loop of that process
RoundRunApi(t) ==
    \/ RoundList(t) \/ Sweep(t) \/ FetchMet(t) \/ MatchRunApi(t)

NextRunApi ==
    \/ Tick
    \/ Create("handler")
    \/ RoundRunApi("monitor")

\* the loop thread is scheduled as long as the service runs
SpecRunApi ==
    InitS1 /\ [][NextRunApi]_vars /\ WF_vars(RoundRunApi("monitor"))

\* the loop of the round holds a quote that meets the condition of trigger id,
\* which is ACTIVE and next to be looked at
Due(id) ==
    /\ Exists(id) /\ store[id].status = "active"
    /\ th["monitor"].pc = "match" /\ id \in th["monitor"].todo
    /\ is_condition_met(th["monitor"].snap[id], th["monitor"].price)

\* C25: when the running monitor has fetched, for an ACTIVE trigger, a price
\* that meets its condition, the trigger is handed to execute_trigger in that
\* round and so leaves ACTIVE.
C25_EventualEvaluation ==
    \A id \in TriggerIds :
        Due(id) ~> (Exists(id) /\ store[id].status # "active")


(* ---------------- API keys ---------------- *)

\* everything but the API keys and the fault count
nokeys ==
    <<store, logs, executing, now, th, placed, issued, opsLeft, notif, pool,
      quote, cadence, logwriters, locks>>

\* the one user whose key is rotated
Tenant == CHOOSE u \in Owners : TRUE

\* the cache with key k deleted / with key k set
CacheWithout(k) == [j \in DOMAIN api_key_cache \ {k} |-> api_key_cache[j]]
CacheWith(cache, k, u) ==
    [j \in DOMAIN cache \cup {k} |-> IF j = k THEN u ELSE cache[j]]

\* _load_api_key_cache: the api_key of every config.json goes into the cache
LoadApiKeyCache ==
    /\ ~cache_loaded
    /\ cache_loaded' = TRUE
    /\ api_key_cache' = CacheWith(api_key_cache, config[Tenant], Tenant)
    /\ UNCHANGED <<config, kth, faults, nokeys>>

\* how many keys one thread draws
MaxRotations == 2

\* TriggerOrderManager.generate_api_key: a fresh key from
\* secrets.token_urlsafe, unlike every key drawn before
GenerateApiKey(c) ==
    /\ kth[c].pc = "idle"
    /\ kth[c].n < MaxRotations
    /\ kth' = [kth EXCEPT ![c] = [pc |-> "save", key |-> <<c, @.n + 1>>,
                                  old |-> NoKey, n |-> @.n + 1]]
    /\ UNCHANGED <<config, api_key_cache, cache_loaded, faults, nokeys>>

\* save_user_api_key under the file lock: the old key is read and the new one
\* written; a lock Timeout is raised to the caller
SaveKeyFile(c) ==
    /\ kth[c].pc = "save"
    /\ \E sf \in BOOLEAN :
         /\ MayFail(sf, FALSE)
         /\ Failed(sf, FALSE)
         /\ IF sf
            THEN /\ kth' = [kth EXCEPT ![c].pc = "idle", ![c].key = NoKey]
                 /\ UNCHANGED config
            ELSE /\ config' = [config EXCEPT ![Tenant] = kth[c].key]
                 /\ kth' = [kth EXCEPT ![c].pc = "cache",
                                       ![c].old = config[Tenant]]
    /\ UNCHANGED <<api_key_cache, cache_loaded, nokeys>>

\* save_user_api_key after the lock is released: the old key leaves the
\* cache, the new one enters it
SaveKeyCache(c) ==
    /\ kth[c].pc = "cache"
    /\ api_key_cache' =
         CacheWith(IF kth[c].old # NoKey /\ kth[c].old \in DOMAIN api_key_cache
                   THEN CacheWithout(kth[c].old) ELSE api_key_cache,
                   kth[c].key, Tenant)
    /\ kth' = [kth EXCEPT ![c].pc = "idle", ![c].key = NoKey, ![c].old = NoKey]
    /\ UNCHANGED <<config, cache_loaded, faults, nokeys>>

NextKeys ==
    \/ LoadApiKeyCache
    \/ \E c \in Callers : GenerateApiKey(c) \/ SaveKeyFile(c) \/ SaveKeyCache(c)

SpecKeys == Init /\ [][NextKeys]_vars

\* get_user_by_api_key(k): the cache is loaded first if it was not
get_user_by_api_key(k) ==
    LET cache == IF cache_loaded THEN api_key_cache
                 ELSE CacheWith(api_key_cache, config[Tenant], Tenant)
    IN  IF k \in DOMAIN cache THEN cache[k] ELSE ""

ApiKeys == {FirstKey} \cup (Callers \X (1..MaxRotations))

\* C26: when no save_user_api_key is in progress, the key in the user's
\* config resolves to the user and no other key does.
C26_OneLiveKey ==
    (\A c \in Callers : kth[c].pc \in {"idle", "save"})
        => \A k \in ApiKeys :
             get_user_by_api_key(k) = Tenant <=> k = config[Tenant]

(* ---------------- lock timeouts ---------------- *)

\* C27: a step in which a store write fails on its lock leaves the caller
\* with an error: the call raises, or execute_trigger enters its except
\* block; no call returns normally from it.
C27_TimeoutSurfaced ==
    [][faults' > faults
         => \E t \in Threads :
              /\ th'[t] # th[t]
              /\ th'[t].ret = "raised" \/ th'[t].pc = "x_save"]_vars

(* ---------------- scenario: two updates of one trigger ---------------- *)

\* the store holds the S1 seed; two update calls are to come, no write fails
InitContention ==
    /\ \E k \in OrderKindInputs : store = [i \in TriggerIds |-> SeedTrigger(k)]
    /\ logs = [i \in TriggerIds |-> <<OrderLog("created", TRUE)>>]
    /\ executing = {}
    /\ now = 0
    /\ th = [t \in Threads |-> IdleThread]
    /\ placed = [i \in TriggerIds |-> << >>]
    /\ issued = TriggerIds
    /\ opsLeft = 2
    /\ faults = MaxFaults
    /\ telegram_token = "token"
    /\ notified = [i \in TriggerIds |-> << >>]
    /\ PoolInit
    /\ QuoteInit
    /\ CadenceInit
    /\ ApiKeyInit
    /\ LogInit
    /\ LockInit

\* the trigger prices the two calls ask for
ContentionPrices == {BasePrice + 2, BasePrice + 4}

\* the owner asks for a new trigger_price
UpdatePrice(t) ==
    UpdateReadOf(t, Owners,
                 {Patch(p, NoPrice, NoQuantity, NoTime, NoNote) :
                    p \in ContentionPrices})

\* trigger.updated_at = datetime.now(), before save_trigger_order takes the
\* lock of the file
UpdateStamp(t) ==
    /\ th[t].pc = "u_save"
    /\ th' = [th EXCEPT ![t].pc = "u_lock", ![t].loc.updated_at = now]
    /\ UNCHANGED <<store, logs, executing, now, env, opsLeft, faults>>

\* save_trigger_order under the lock, then _log_action
UpdateLocked(t) == UpdateSaveOf(t, "u_lock", th[t].loc.updated_at)

NextContention ==
    \/ Tick
    \/ \E t \in Threads : UpdatePrice(t) \/ UpdateStamp(t) \/ UpdateLocked(t)

SpecContention == InitContention /\ [][NextContention]_vars

\* both threads have made one update call and are back
BothUpdated ==
    /\ opsLeft = 0
    /\ \A t \in Threads : th[t].pc = "idle" /\ th[t].op = "update"

\* the "updated" entries in the log of id
UpdatedEntries(id) == SelectSeq(logs[id], LAMBDA e : e.action = "updated")

\* C28: two concurrent updates of the trigger_price of one ACTIVE trigger
\* both return the trigger, the stored trigger_price is one of the two
\* prices asked for, the log has gained two "updated" entries, and no save
\* moves the stored updated_at backwards.
C28_ContendedUpdates ==
    /\ [](BothUpdated =>
            \A id \in TriggerIds :
              /\ \A t \in Threads : th[t].ret = "trigger"
              /\ store[id].trigger_price \in ContentionPrices
              /\ Len(UpdatedEntries(id)) = 2)
    /\ [][\A id \in TriggerIds :
            store'[id].updated_at >= store[id].updated_at]_vars

(* ---------------- notifier ---------------- *)

\* C29: over the lifetime of a trigger the notifier is handed at most one
\* payload, whichever store write failed during its execution.
C29_AtMostOnePayload ==
    \A id \in TriggerIds : Len(notified[id]) <= 1

(* ---------------- idle sessions ---------------- *)

\* what a worker inside _get_broker does next
WorkerStep(t) ==
    \/ Cleanup(t) \/ CleanupLogout(t)
    \/ Lookup(t) \/ Construct(t) \/ Insert(t)

\* time passes and a worker inside _get_broker runs on to its return; a new
\* call of _get_broker comes only when execute_trigger makes one
SpecIdle ==
    /\ Init
    /\ [][NextRace]_vars
    /\ WF_vars(PoolTick)
    /\ \A t \in PoolThreads : WF_vars(WorkerStep(t))

\* adapter a is in the pool, logged in, and was last used longer ago than
\* the TTL
IdleTooLong(a) ==
    /\ a <= Len(adapters)
    /\ adapters[a].logged_in
    /\ \E k \in Cached :
         /\ broker_instances[k].broker = a
         /\ clock - broker_instances[k].last_access > BROKER_CACHE_TTL_MINUTES

\* C30: a pooled session that has been idle for longer than the TTL is in
\* the end logged out, not kept.
C30_IdleSessionEvicted ==
    \A a \in 1..MaxAdapters :
        IdleTooLong(a) ~> (a <= Len(adapters) /\ ~adapters[a].logged_in)

(* ---------------- the guard of execute_trigger ---------------- *)

\* in this step thread t calls execute_trigger for id
Dispatches(t, id) ==
    /\ th[t].pc = "match"
    /\ id \in th[t].todo
    /\ id \notin th'[t].todo
    /\ is_condition_met(th[t].snap[id], th[t].price)

\* C31: execute_trigger for a trigger that is in flight, or whose stored
\* status is no longer ACTIVE, returns False and changes nothing: not the
\* store, the logs, the in-flight set, the broker, the pool or the notifier.
C31_GuardHasNoEffect ==
    [][\A t \in Threads, id \in TriggerIds :
         (/\ Dispatches(t, id)
          /\ \/ id \in executing
             \/ Exists(id) /\ store[id].status # "active")
           => /\ th'[t].pc = "match"
              /\ th'[t].xret = "False"
              /\ UNCHANGED <<store, logs, executing, env>>]_vars

\* one call was turned away while the other was still in flight
C31_Witness ==
    \E t \in Threads, id \in TriggerIds :
        /\ th[t].pc = "match"
        /\ th[t].xret = "False"
        /\ id \in executing
        /\ id \in DOMAIN th[t].snap
        /\ id \notin th[t].todo

(* ---------------- stop() during a round ---------------- *)

\* the state after start(): the flag is set, the PriceMonitor thread is at
\* the top of its loop, the store holds the S1 seed, nothing has failed yet
InitStop ==
    /\ \E k \in OrderKindInputs : store = [i \in TriggerIds |-> SeedTrigger(k)]
    /\ logs = [i \in TriggerIds |-> <<OrderLog("created", TRUE)>>]
    /\ executing = {}
    /\ now = 0
    /\ th = [t \in Threads |-> IdleThread]
    /\ placed = [i \in TriggerIds |-> << >>]
    /\ issued = TriggerIds
    /\ opsLeft = 0
    /\ faults = 0
    /\ telegram_token = "token"
    /\ notified = [i \in TriggerIds |-> << >>]
    /\ PoolInit
    /\ QuoteInit
    /\ ApiKeyInit
    /\ LogInit
    /\ LockInit
    /\ running = TRUE
    /\ workers = <<"while">>
    /\ sth = [c \in Callers |-> IF c = "c1" THEN "returned" ELSE "idle"]
    /\ stats = [checks |-> 0, errors |-> 0, last_check |-> NoTime]

\* _monitor_loop calls _check_all_triggers, which reads the ACTIVE list
LoopEnter(w) ==
    /\ workers[w] = "round"
    /\ RoundListOf("monitor", <<running, sth, stats>>)
    /\ workers' = [workers EXCEPT ![w] = "inround"]

\* _check_all_triggers has returned to _monitor_loop
LoopLeave(w) ==
    /\ th["monitor"].pc = "idle"
    /\ LoopRoundOf(w, "inround", {FALSE})

\* the steps of the round the loop is in
RoundSteps(t) ==
    \/ Sweep(t) \/ Fetch(t) \/ Match(t)
    \/ ExecTriggered(t) \/ ExecBroker(t) \/ ExecFinal(t) \/ Except(t)

\* the steps of the PriceMonitor thread
LoopSteps(w) ==
    \/ LoopWhile(w) \/ LoopEnter(w) \/ LoopLeave(w)
    \/ LoopSleep(w) \/ LoopSlice(w)
    \/ RoundSteps("monitor")

NextStop ==
    \/ Tick
    \/ Stop("c1")
    \/ LoopSteps(1)

\* the thread and its callbacks run on until they return
SpecStop == InitStop /\ [][NextStop]_vars /\ WF_vars(LoopSteps(1))

\* C32: once stop() has cleared the flag the loop passes no further while
\* test and begins no further second of its wait, so it ends; stop() itself
\* touches neither the thread inside execute_trigger nor the store, and a
\* trigger that is in flight ends EXECUTED or FAILED.
C32_StopDrains ==
    /\ [][~running =>
            \A w \in DOMAIN workers :
               ~(workers[w] = "while" /\ workers'[w] = "round")
               /\ ~(workers[w] = "sleep" /\ workers'[w] = "slice")]_vars
    /\ [][(running /\ ~running') =>
            UNCHANGED <<th, store, logs, executing, placed, notified>>]_vars
    /\ (~running ~> \A w \in DOMAIN workers : workers[w] = "ended")
    /\ \A id \in TriggerIds :
         (id \in executing) ~> (store[id].status \in {"executed", "failed"})

(* ---------------- the statistics of the loop ---------------- *)

\* in this step the round of worker w ends, with or without an exception
PassEnds(w) == workers[w] = "round" /\ workers'[w] # "round"

\* C33: a round that raises adds one to stats.errors and the loop goes on to
\* its wait; every round, raising or not, adds one to stats.checks and sets
\* stats.last_check.
C33_LoopRecovers ==
    [][\A w \in DOMAIN workers :
         PassEnds(w) =>
           /\ workers'[w] = "sleep"
           /\ stats'.errors \in {stats.errors, stats.errors + 1}
           /\ stats'.checks = stats.checks + 1
           /\ stats'.last_check = now]_vars

(* ---------------- the time of creation of log entries ---------------- *)

\* OrderLog.create_log: created_at is the time the object is built
StampedLog(action, success, at) ==
    [ action |-> action, success |-> success, created_at |-> at ]

\* the store holds the S1 seed and its "created" entry
InitLog ==
    /\ \E k \in OrderKindInputs : store = [i \in TriggerIds |-> SeedTrigger(k)]
    /\ logs = [i \in TriggerIds |-> <<StampedLog("created", TRUE, 0)>>]
    /\ executing = {}
    /\ now = 0
    /\ th = [t \in Threads |-> IdleThread]
    /\ placed = [i \in TriggerIds |-> << >>]
    /\ issued = TriggerIds
    /\ opsLeft = 0
    /\ faults = 0
    /\ telegram_token = "token"
    /\ notified = [i \in TriggerIds |-> << >>]
    /\ PoolInit
    /\ QuoteInit
    /\ CadenceInit
    /\ ApiKeyInit
    /\ LogInit
    /\ LockInit

\* how many entries one thread writes
MaxLogs == 2

\* the operation each thread logs: the handler an update, the monitor an
\* execution
LogAction == [t \in Threads |-> IF t = "handler" THEN "updated" ELSE "triggered"]

\* everything but the logs, their writers and the fault count
nologs ==
    <<store, executing, th, placed, issued, opsLeft, notif, pool, quote,
      cadence, apikeys, locks>>

\* _log_action: OrderLog.create_log builds the entry
LogCreate(t) ==
    /\ lth[t].pc = "idle"
    /\ lth[t].n < MaxLogs
    /\ lth' = [lth EXCEPT ![t] = [pc |-> "save",
                                  log |-> StampedLog(LogAction[t], TRUE, now),
                                  n |-> @.n + 1]]
    /\ UNCHANGED <<logs, now, faults, nologs>>

\* _log_action: save_order_log appends the entry under the lock of the file,
\* or fails and swallows the failure
LogSave(t) ==
    /\ lth[t].pc = "save"
    /\ \E id \in TriggerIds, lf \in BOOLEAN :
         /\ MayFail(FALSE, lf)
         /\ Failed(FALSE, lf)
         /\ logs' = IF lf THEN logs
                    ELSE [logs EXCEPT ![id] = Append(@, lth[t].log)]
    /\ lth' = [lth EXCEPT ![t].pc = "idle", ![t].log = << >>]
    /\ UNCHANGED <<now, nologs>>

\* time passes
LogTick ==
    /\ now < MaxTime
    /\ now' = now + 1
    /\ UNCHANGED <<logs, lth, faults, nologs>>

NextLog ==
    \/ LogTick
    \/ \E t \in Threads : LogCreate(t) \/ LogSave(t)

SpecLog == InitLog /\ [][NextLog]_vars

\* C34: in the log of a trigger the created_at of the entries never goes
\* down from one line to the next, also when two threads log at once.
C34_CreatedAtOrdered ==
    \A id \in TriggerIds :
        \A i \in 1..Len(logs[id]), j \in 1..Len(logs[id]) :
            i < j => logs[id][i].created_at <= logs[id][j].created_at

(* ---------------- the janitor ---------------- *)

\* the retention window, in ticks of the clock (days = 30 in the source):
\* a record written before the present tick is older than the window
RetentionDays == 0

\* the statuses cleanup_old_triggers goes through, in its order
JanitorOrder == <<"executed", "failed", "cancelled", "expired">>

\* the store holds the S1 seed; two handler calls are to come
InitJanitor ==
    /\ \E k \in OrderKindInputs : store = [i \in TriggerIds |-> SeedTrigger(k)]
    /\ logs = [i \in TriggerIds |-> <<OrderLog("created", TRUE)>>]
    /\ executing = {}
    /\ now = 0
    /\ th = [t \in Threads |-> IdleThread]
    /\ placed = [i \in TriggerIds |-> << >>]
    /\ issued = TriggerIds
    /\ opsLeft = 2
    /\ faults = 0
    /\ telegram_token = "token"
    /\ notified = [i \in TriggerIds |-> << >>]
    /\ PoolInit
    /\ QuoteInit
    /\ CadenceInit
    /\ ApiKeyInit
    /\ LogInit
    /\ LockInit

\* cleanup_old_triggers(days): cutoff = now - days, kept in price; the
\* statuses still to list, counted in todo's place by act
JanitorStart(t) ==
    /\ CanStart(t)
    /\ th' = [th EXCEPT ![t] =
                [IdleThread EXCEPT !.op = "cleanup", !.pc = "j_list",
                                   !.price = now - RetentionDays,
                                   !.act = 1..Len(JanitorOrder)]]
    /\ opsLeft' = opsLeft - 1
    /\ UNCHANGED <<store, logs, executing, now, env, faults>>

\* the next status: get_triggers_by_status reads the records; those with
\* updated_at < cutoff are the ones the loop will delete
JanitorList(t) ==
    /\ th[t].pc = "j_list"
    /\ IF th[t].act = {}
       THEN th' = Return(t, "cleaned")
       ELSE LET n == CHOOSE m \in th[t].act : \A k \in th[t].act : m <= k
            IN  th' = [th EXCEPT ![t].pc = "j_delete", ![t].act = @ \ {n},
                         ![t].todo = {i \in DOMAIN store :
                                        /\ store[i].status = JanitorOrder[n]
                                        /\ store[i].updated_at < th[t].price}]
    /\ UNCHANGED <<store, logs, executing, now, env, opsLeft, faults>>

\* storage.delete_trigger_order(trigger.id) for one listed trigger: the
\* file of that id is unlinked if it is there
JanitorDelete(t) ==
    /\ th[t].pc = "j_delete"
    /\ IF th[t].todo = {}
       THEN /\ th' = [th EXCEPT ![t].pc = "j_list"]
            /\ UNCHANGED store
       ELSE \E i \in th[t].todo :
              /\ store' = [j \in DOMAIN store \ {i} |-> store[j]]
              /\ th' = [th EXCEPT ![t].todo = @ \ {i}]
    /\ UNCHANGED <<logs, executing, now, env, opsLeft, faults>>

Janitor(t) == JanitorStart(t) \/ JanitorList(t) \/ JanitorDelete(t)

\* the janitor is called between cancels and updates while the monitor runs
NextJanitor ==
    \/ Tick
    \/ UpdateRead("handler") \/ UpdateSave("handler")
    \/ CancelRead("handler") \/ CancelSave("handler")
    \/ Janitor("handler")
    \/ RoundNext("monitor")

SpecJanitor == InitJanitor /\ [][NextJanitor]_vars

\* in this step the janitor removes the record of id
JanitorRemoves(id) ==
    /\ \E t \in Threads : th[t].pc = "j_delete"
    /\ Exists(id)
    /\ id \notin DOMAIN store'

\* C35: the janitor removes only records that are in a terminal state and
\* were last written longer ago than the retention window, and it never
\* changes a log.
C35_JanitorOnlyOldTerminal ==
    [][/\ \A id \in TriggerIds :
            JanitorRemoves(id) =>
              /\ store[id].status \in Terminal
              /\ now - store[id].updated_at > RetentionDays
       /\ (\E t \in Threads : th[t].op = "cleanup" /\ th'[t] # th[t])
            => logs' = logs]_vars

(* ---------------- condition evaluation in binary floating point ---------------- *)

\* trigger_price, current_price and tolerance are Python floats (IEEE 754
\* doubles).  A double is written here as the natural number x * 2^59,
\* little end first in six digits of base LimbBase.  For the
\* doubles of [64, 128) the spacing 2^-46 is one unit of the second digit.
LimbBase == 2^13

\* the default of the parameter tolerance: 0.01 = 0x1.47ae147ae147bp-7
tolerance == <<5243, 7536, 6225, 2293, 1, 0>>

LimbCount == Len(tolerance)
Digits == 1..LimbCount

\* float(): the double nearest to a price given in thousandths
\*    99.98  = 0x1.8feb851eb851fp+6     99.99  = 0x1.8ff5c28f5c28fp+6
\*    99.995 = 0x1.8ffae147ae148p+6    100.0   = 0x1.9p+6
\*   100.005 = 0x1.90051eb851eb8p+6    100.01  = 0x1.900a3d70a3d71p+6
\*   100.02  = 0x1.90147ae147ae1p+6
DoubleOf(thousandths) ==
    CASE thousandths =  99980 -> <<0, 1311, 3932, 3604, 4605, 1>>
      [] thousandths =  99990 -> <<0,  655, 1966, 5898, 4606, 1>>
      [] thousandths =  99995 -> <<0,  328,  983, 2949, 4607, 1>>
      [] thousandths = 100000 -> <<0,    0,    0,    0, 4608, 1>>
      [] thousandths = 100005 -> <<0, 7864, 7208, 5242, 4608, 1>>
      [] thousandths = 100010 -> <<0, 7537, 6225, 2293, 4609, 1>>
      [] thousandths = 100020 -> <<0, 6881, 4259, 4587, 4610, 1>>

\* the borrow into digit i of a - b, the carry into digit i of a + b
RECURSIVE Borrow(_, _, _)
Borrow(a, b, i) ==
    IF i = 1 THEN 0
    ELSE IF a[i - 1] - b[i - 1] - Borrow(a, b, i - 1) < 0 THEN 1 ELSE 0

RECURSIVE Carry(_, _, _)
Carry(a, b, i) ==
    IF i = 1 THEN 0
    ELSE IF a[i - 1] + b[i - 1] + Carry(a, b, i - 1) >= LimbBase THEN 1 ELSE 0

\* the exact difference (a >= b) and the exact sum
ExactSub(a, b) ==
    [i \in Digits |-> (a[i] - b[i] - Borrow(a, b, i) + LimbBase) % LimbBase]
ExactAdd(a, b) ==
    [i \in Digits |-> (a[i] + b[i] + Carry(a, b, i)) % LimbBase]

\* a <= b
FloatLeq(a, b) ==
    \/ a = b
    \/ \E i \in Digits : a[i] < b[i] /\ \A j \in (i + 1)..LimbCount : a[j] = b[j]

\* the result of an operation in [64, 128), rounded to the nearest double,
\* ties to the even one
RoundToDouble(x) ==
    LET down == [x EXCEPT ![1] = 0]
        up   == ExactAdd(down, [i \in Digits |-> IF i = 2 THEN 1 ELSE 0])
        half == LimbBase \div 2
    IN  IF x[1] > half \/ (x[1] = half /\ x[2] % 2 = 1) THEN up ELSE down

\* abs(p - t) of two doubles of [64, 128): the difference is a double
FloatAbsDiff(p, t) == IF FloatLeq(t, p) THEN ExactSub(p, t) ELSE ExactSub(t, p)

\* TriggerOrder.is_condition_met on floats
FloatConditionMet(trigger, current_price) ==
    LET t == DoubleOf(trigger.trigger_price)
        p == DoubleOf(current_price)
    IN  CASE trigger.condition = ">=" ->
               FloatLeq(RoundToDouble(ExactSub(t, tolerance)), p)
          [] trigger.condition = "<=" ->
               FloatLeq(p, RoundToDouble(ExactAdd(t, tolerance)))
          [] trigger.condition = "==" ->
               FloatLeq(FloatAbsDiff(p, t), tolerance)
          [] OTHER -> FALSE

\* the prices of the scenario, in thousandths
CondTriggers == {99990, 100000, 100010}
CondPrices == {99980, 99990, 99995, 100000, 100005, 100010, 100020}
Conditions == {">=", "<=", "=="}

\* the monitor holds a trigger and the quote of its symbol
InitCond ==
    /\ store = EmptyMap
    /\ logs = [i \in TriggerIds |-> << >>]
    /\ executing = {}
    /\ now = 0
    /\ \E c \in Conditions, t \in CondTriggers, p \in CondPrices :
         th = [x \in Threads |->
                 IF x = "monitor"
                 THEN [IdleThread EXCEPT
                         !.pc = "cond", !.price = p,
                         !.loc = TriggerOrder("u1", c, t, "limit", "buy", 1,
                                              NoPrice, NoTime, 0)]
                 ELSE IdleThread]
    /\ placed = [i \in TriggerIds |-> << >>]
    /\ issued = {}
    /\ opsLeft = 0
    /\ faults = 0
    /\ telegram_token = "token"
    /\ notified = [i \in TriggerIds |-> << >>]
    /\ PoolInit
    /\ QuoteInit
    /\ CadenceInit
    /\ ApiKeyInit
    /\ LogInit
    /\ LockInit

\* trigger.is_condition_met(current_price)
Evaluate(t) ==
    /\ th[t].pc = "cond"
    /\ th' = [th EXCEPT ![t].pc = "idle",
                        ![t].result = IF FloatConditionMet(th[t].loc, th[t].price)
                                      THEN "met" ELSE "unmet"]
    /\ UNCHANGED <<store, logs, executing, now, env, opsLeft, faults>>

NextCond == Evaluate("monitor")

SpecCond == InitCond /\ [][NextCond]_vars

\* the tolerance in thousandths
Epsilon == 10

\* the condition as the specification states it, in fixed point
FixedConditionMet(trigger, p) ==
    CASE trigger.condition = ">=" -> p >= trigger.trigger_price - Epsilon
      [] trigger.condition = "<=" -> p <= trigger.trigger_price + Epsilon
      [] trigger.condition = "==" ->
            /\ p - trigger.trigger_price <= Epsilon
            /\ trigger.trigger_price - p <= Epsilon
      [] OTHER -> FALSE

\* C36: the condition is met exactly when it is met in fixed point with the
\* tolerance 0.01: >= iff p >= trigger - 0.01, <= iff p <= trigger + 0.01,
\* == iff |p - trigger| <= 0.01.
C36_ToleranceExact ==
    \A t \in Threads :
        th[t].result \in {"met", "unmet"}
          => (th[t].result = "met" <=> FixedConditionMet(th[t].loc, th[t].price))

\* C37: a trigger whose cancel_trigger_order returned True is never sent to
\* the broker: no order is placed for a trigger whose log has a "cancelled"
\* entry, no cancel returns True for a trigger that has an order, and once
\* no call is working on such a trigger its stored status is CANCELLED.
C37_CancelledNeverPlaced ==
    [][\A id \in TriggerIds :
         /\ placed'[id] # placed[id] => Count(Actions(id), "cancelled") = 0
         /\ \A t \in Threads :
              (th[t].pc = "c_save" /\ th[t].tid = id /\ th'[t].ret = "True")
                => placed[id] = << >>
         /\ ( /\ id \in DOMAIN store'
              /\ \E i \in DOMAIN logs'[id] : logs'[id][i].action = "cancelled"
              /\ \A t \in Threads : th'[t].pc # "idle" => th'[t].tid # id )
            => store'[id].status = "cancelled"]_vars

\* the fields of an order that update_trigger_order may change
OrderFields == {"trigger_price", "order_price", "quantity"}

\* C38: when execute_trigger passes its guard, the record it goes on with,
\* which it saves as TRIGGERED and whose price and quantity it sends to the
\* broker, carries the trigger price, limit price and quantity of the stored
\* record, so that an update committed since the round listed the trigger
\* is not undone.
C38_ExecuteKeepsUpdate ==
    [][\A t \in Threads :
         (th[t].pc = "match" /\ th'[t].pc = "e_save" /\ Exists(th'[t].tid))
           => \A f \in OrderFields : th'[t].loc[f] = store[th'[t].tid][f]]_vars

\* C39: execute_trigger on a trigger whose record is no longer in the store
\* returns False at its guard: it passes the guard, after which it saves
\* the record, appends log entries and asks for a broker session, only for
\* a trigger that is in the store.
C39_DeletedNotExecuted ==
    [][\A t \in Threads :
         (th[t].pc = "match" /\ th'[t].pc = "e_save") => Exists(th'[t].tid)]_vars

(* ---------------- the two locks, acquired and released step by step ---------------- *)

\* the calls a thread makes
MaxLockCalls == 1

\* everything but the locks and their threads
nolocks ==
    <<store, logs, executing, now, th, opsLeft, faults, placed, issued, notif,
      pool, quote, cadence, apikeys, logwriters>>

\* a with block that would keep its lock when it is left
KeptAtExit(t) == t

\* the end of `with lock:` releases the lock
AtExit(t) == Free

\* `with lock:` is entered: the thread waits until the lock is free
Take(t, from, lock, to) ==
    /\ xth[t].pc = from
    /\ IF lock = "_executing_lock"
       THEN /\ executing_lock = Free
            /\ executing_lock' = t
            /\ UNCHANGED broker_lock
       ELSE /\ broker_lock = Free
            /\ broker_lock' = t
            /\ UNCHANGED executing_lock
    /\ xth' = [xth EXCEPT ![t].pc = to]
    /\ UNCHANGED nolocks

\* the block under the lock runs and is left, towards one of the places tos
Release(t, from, lock, tos) ==
    /\ xth[t].pc = from
    /\ IF lock = "_executing_lock"
       THEN /\ executing_lock' = AtExit(t)
            /\ UNCHANGED broker_lock
       ELSE /\ broker_lock' = AtExit(t)
            /\ UNCHANGED executing_lock
    /\ \E to \in tos : xth' = [xth EXCEPT ![t].pc = to]
    /\ UNCHANGED nolocks

\* code outside every with block, towards one of the places tos
Unlocked(t, from, tos) ==
    /\ xth[t].pc = from
    /\ \E to \in tos : xth' = [xth EXCEPT ![t].pc = to]
    /\ UNCHANGED <<executing_lock, broker_lock>>
    /\ UNCHANGED nolocks

\* the executor or the shutdown handler calls into the manager
LockCall(t) ==
    /\ xth[t].pc = "idle"
    /\ xth[t].calls < MaxLockCalls
    /\ \E op \in {"execute_trigger", "cleanup_all_brokers"} :
         xth' = [xth EXCEPT ![t] = [pc |-> op, op |-> op, calls |-> @.calls + 1]]
    /\ UNCHANGED <<executing_lock, broker_lock>>
    /\ UNCHANGED nolocks

\* _cleanup_broker_cache: returns when not due; else evicts under the lock
\* and logs the evicted brokers out after it
CleanupBrokerCache(t) ==
    \/ Unlocked(t, "_cleanup_broker_cache", {"sweep", "lookup"})
    \/ Take(t, "sweep", "_broker_lock", "evict")
    \/ Release(t, "evict", "_broker_lock", {"logout"})
    \/ Unlocked(t, "logout", {"lookup"})

\* _get_broker: the lookup under the lock (hit: return broker), then
\* get_broker_config (None: return None), get_broker and login() outside
\* it (failed: return None), then the double check and insert under the lock
GetBrokerLocks(t) ==
    \/ CleanupBrokerCache(t)
    \/ Take(t, "lookup", "_broker_lock", "cached")
    \/ Release(t, "cached", "_broker_lock", {"order", "config"})
    \/ Unlocked(t, "config", {"login", "failed"})
    \/ Unlocked(t, "login", {"insert", "failed"})
    \/ Take(t, "insert", "_broker_lock", "store")
    \/ Release(t, "store", "_broker_lock", {"order"})

\* execute_trigger: the guard under _executing_lock (return False, or the
\* id is marked), the TRIGGERED save, _get_broker, the order call, the
\* outcome saved in the try or the except block, the discard in finally
ExecuteTrigger(t) ==
    \/ Take(t, "execute_trigger", "_executing_lock", "guard")
    \/ Release(t, "guard", "_executing_lock", {"idle", "triggered"})
    \/ Unlocked(t, "triggered", {"_cleanup_broker_cache", "failed"})
    \/ GetBrokerLocks(t)
    \/ Unlocked(t, "order", {"executed", "failed"})
    \/ Unlocked(t, "executed", {"finally"})
    \/ Unlocked(t, "failed", {"finally"})
    \/ Take(t, "finally", "_executing_lock", "discard")
    \/ Release(t, "discard", "_executing_lock", {"idle"})

\* cleanup_all_brokers: the pool is emptied under the lock, the brokers
\* are logged out after it
CleanupAllBrokers(t) ==
    \/ Take(t, "cleanup_all_brokers", "_broker_lock", "clear")
    \/ Release(t, "clear", "_broker_lock", {"logout_all"})
    \/ Unlocked(t, "logout_all", {"idle"})

LockSteps(t) == ExecuteTrigger(t) \/ CleanupAllBrokers(t)

NextLocks == \E t \in LockThreads : LockCall(t) \/ LockSteps(t)

\* every thread that can take a step is scheduled, and the calls into the
\* broker and the store return
SpecLocks ==
    Init /\ [][NextLocks]_vars /\ \A t \in LockThreads : WF_vars(LockSteps(t))

\* the locks thread t holds
LocksHeld(t) ==
    {l \in {"_executing_lock"} : executing_lock = t}
      \cup {l \in {"_broker_lock"} : broker_lock = t}

\* C40: no thread holds _executing_lock and _broker_lock at once, no thread
\* holds either of them while it is in broker.login() or in the order call,
\* and every call of execute_trigger and cleanup_all_brokers that has
\* started returns.
C40_LocksNeverNested ==
    /\ [](\A t \in LockThreads :
            /\ Cardinality(LocksHeld(t)) <= 1
            /\ xth[t].pc \in {"login", "order"} => LocksHeld(t) = {})
    /\ \A t \in LockThreads : (xth[t].pc # "idle") ~> (xth[t].pc = "idle")

\* one thread is in login() while a second holds _broker_lock and a third
\* holds _executing_lock to leave its call
C40_Witness ==
    \E a, b, c \in LockThreads :
        /\ xth[a].pc = "login"
        /\ broker_lock = b
        /\ executing_lock = c
        /\ xth[c].pc = "discard"
        /\ xth[c].calls = MaxLockCalls

====
